---- MODULE Spec2Model ----
(***************************************************************************)
(* VideoVanish (src/videovanish.py): the synchronized playback engine      *)
(* (VideoPlayer), the frame-indexed annotation store and the RAM preview   *)
(* layers, as one state machine.                                           *)
(*                                                                         *)
(* Every Python handler is an operator from a state record to a state      *)
(* record, so that a handler that calls another one (pause_all -> the      *)
(* master's playbackStateChanged slot -> _snap_all_to) is the composition  *)
(* of the two.  An action applies one handler to the current state.        *)
(*                                                                         *)
(* Qt is the environment.  A QMediaPlayer is its playback state and its    *)
(* position; setPosition(p) makes position() = p; play()/pause() change    *)
(* the state and, on a change, run the connected slot before returning     *)
(* (same-thread signal delivery); decoded frames, position progress, media *)
(* status and end of media arrive as separate steps of the event loop.     *)
(* A player without a source is not seekable and does not start: its       *)
(* setPosition and play do nothing.                                        *)
(* Python None is the empty sequence (preview frames), the empty set       *)
(* (overlay keyframe) or <<0, 1>> (fps).  fps is a rational <<num, den>>.  *)
(***************************************************************************)
EXTENDS Integers, Sequences, FiniteSets, TLC

\* ------------------------------------------------------------- bounds
MaxStep == 2          \* positions are 0, 20, ..., 20 * MaxStep ms
MaxPreviewLen == 2    \* longest preview buffer
MaxAnn == 2           \* most annotations in the store
MaxObj == 2           \* object ids offered by the selector
MaxMapFrame == 12     \* frame indices of the mapper specification
MaxImportFrame == 1   \* frame indices of an imported record
MaxPending == 1       \* queued zero-delay timers of one kind
MaxVideoFrames == 3   \* frames of a video file read by tools
FrameWidth == 4       \* pixels of a frame (one row)

\* ------------------------------------------------- program constants
resync_threshold_ms == 35
R_px == 8

TimesMs == {20 * k : k \in 0..MaxStep}
MetaFps == {<<50, 1>>}
NoFps == <<0, 1>>

\* Python round() rounds half to even.
RoundHalfEven(n, d) ==
  LET q == n \div d
      r == n % d
  IN  IF 2 * r < d THEN q
      ELSE IF 2 * r > d THEN q + 1
      ELSE IF q % 2 = 0 THEN q ELSE q + 1

\* a mapper that truncates instead of rounding
ms_to_frame_floor(ms, f) == (ms * f[1]) \div (1000 * f[2])

ms_to_frame(ms, f) == RoundHalfEven(ms * f[1], 1000 * f[2])

frame_to_ms(fi, f) == RoundHalfEven(fi * 1000 * f[2], f[1])

FpsResolved(s) == s.fps[1] > 0

\* ---------------------------------------------------------------- state
VARIABLES
  orig_loaded, orig_meta, orig_state, orig_pos,   \* player_orig (master)
  infill_playing, infill_pos,             \* player_infill (follower)
  mask_playing, mask_pos,                 \* mask_player (follower)
  last_frame_ms, last_frame_idx, fps, poster_ready,
  show_mode, resync_timer, slider_down, slider, current_object,
  vis_orig, vis_infill, vis_infill_preview, vis_mask, vis_mask_preview,
  mask_pix, infill_pix,
  mask_preview_frames, mask_preview_start_frame,
  infill_preview_frames, infill_preview_start_frame,
  keyframes, overlay_kf, kf_list,
  poster_timer, pause_timer, slider_timer,
  mask_opacity, mask_preview_opacity,
  infilled_video_path, mask_video_path, rb_mode, mask_visible,
  op,                                     \* the last handler that ran
  map_fps, map_i, map_ms, map_back, map_pc,  \* operands of the frame-time mapper
  tool                                    \* the last call into tools / diffuerase

vars == <<orig_loaded, orig_meta, orig_state, orig_pos, infill_playing, infill_pos,
          mask_playing, mask_pos, last_frame_ms, last_frame_idx, fps,
          poster_ready, show_mode, resync_timer, slider_down, slider,
          current_object, vis_orig, vis_infill, vis_infill_preview, vis_mask,
          vis_mask_preview, mask_pix, infill_pix, mask_preview_frames,
          mask_preview_start_frame, infill_preview_frames,
          infill_preview_start_frame, keyframes, overlay_kf, kf_list,
          poster_timer, pause_timer, slider_timer, mask_opacity,
          mask_preview_opacity, infilled_video_path,
          mask_video_path, rb_mode,
          mask_visible, op, map_fps, map_i, map_ms, map_back, map_pc, tool>>

State ==
  [orig_loaded |-> orig_loaded, orig_meta |-> orig_meta,
   orig_state |-> orig_state, orig_pos |-> orig_pos,
   infill_playing |-> infill_playing, infill_pos |-> infill_pos,
   mask_playing |-> mask_playing, mask_pos |-> mask_pos,
   last_frame_ms |-> last_frame_ms, last_frame_idx |-> last_frame_idx,
   fps |-> fps, poster_ready |-> poster_ready, show_mode |-> show_mode,
   resync_timer |-> resync_timer, slider_down |-> slider_down, slider |-> slider,
   current_object |-> current_object,
   vis_orig |-> vis_orig, vis_infill |-> vis_infill,
   vis_infill_preview |-> vis_infill_preview, vis_mask |-> vis_mask,
   vis_mask_preview |-> vis_mask_preview, mask_pix |-> mask_pix,
   infill_pix |-> infill_pix,
   mask_preview_frames |-> mask_preview_frames,
   mask_preview_start_frame |-> mask_preview_start_frame,
   infill_preview_frames |-> infill_preview_frames,
   infill_preview_start_frame |-> infill_preview_start_frame,
   keyframes |-> keyframes, overlay_kf |-> overlay_kf, kf_list |-> kf_list,
   poster_timer |-> poster_timer, pause_timer |-> pause_timer,
   slider_timer |-> slider_timer,
   mask_opacity |-> mask_opacity,
   mask_preview_opacity |-> mask_preview_opacity,
   infilled_video_path |-> infilled_video_path,
   mask_video_path |-> mask_video_path, rb_mode |-> rb_mode,
   mask_visible |-> mask_visible]

\* The state after a handler: every field of s, and the handler's name,
\* its integer argument, its string argument and its report (the warning or
\* error it showed, "" when none).
Set(s, name, arg, sarg, report) ==
  \E t \in {s} :
    /\ orig_loaded' = t.orig_loaded
    /\ orig_meta' = t.orig_meta
    /\ orig_state' = t.orig_state
    /\ orig_pos' = t.orig_pos
    /\ infill_playing' = t.infill_playing
    /\ infill_pos' = t.infill_pos
    /\ mask_playing' = t.mask_playing
    /\ mask_pos' = t.mask_pos
    /\ last_frame_ms' = t.last_frame_ms
    /\ last_frame_idx' = t.last_frame_idx
    /\ fps' = t.fps
    /\ poster_ready' = t.poster_ready
    /\ show_mode' = t.show_mode
    /\ resync_timer' = t.resync_timer
    /\ slider_down' = t.slider_down
    /\ slider' = t.slider
    /\ current_object' = t.current_object
    /\ vis_orig' = t.vis_orig
    /\ vis_infill' = t.vis_infill
    /\ vis_infill_preview' = t.vis_infill_preview
    /\ vis_mask' = t.vis_mask
    /\ vis_mask_preview' = t.vis_mask_preview
    /\ mask_pix' = t.mask_pix
    /\ infill_pix' = t.infill_pix
    /\ mask_preview_frames' = t.mask_preview_frames
    /\ mask_preview_start_frame' = t.mask_preview_start_frame
    /\ infill_preview_frames' = t.infill_preview_frames
    /\ infill_preview_start_frame' = t.infill_preview_start_frame
    /\ keyframes' = t.keyframes
    /\ overlay_kf' = t.overlay_kf
    /\ kf_list' = t.kf_list
    /\ poster_timer' = t.poster_timer
    /\ pause_timer' = t.pause_timer
    /\ slider_timer' = t.slider_timer
    /\ mask_opacity' = t.mask_opacity
    /\ mask_preview_opacity' = t.mask_preview_opacity
    /\ infilled_video_path' = t.infilled_video_path
    /\ mask_video_path' = t.mask_video_path
    /\ rb_mode' = t.rb_mode
    /\ mask_visible' = t.mask_visible
    /\ op' = [name |-> name, arg |-> arg, sarg |-> sarg, report |-> report]
    /\ UNCHANGED <<map_fps, map_i, map_ms, map_back, map_pc, tool>>

\* ------------------------------------------------------- preview layers
\* a per-frame update that forgets the buffer's upper end
update_mask_preview_no_upper(s, frame_idx) ==
  LET i == frame_idx - s.mask_preview_start_frame IN
  IF s.mask_preview_frames = << >> THEN s
  ELSE IF i < 0 THEN [s EXCEPT !.vis_mask_preview = FALSE]
  ELSE IF i >= Len(s.mask_preview_frames) THEN s
  ELSE [s EXCEPT !.vis_mask_preview = TRUE,
                 !.mask_pix = s.mask_preview_frames[i + 1]]

\* _update_mask_preview_for_frame
update_mask_preview_for_frame(s, frame_idx) ==
  LET i == frame_idx - s.mask_preview_start_frame IN
  IF s.mask_preview_frames = << >> THEN s
  ELSE IF i < 0 \/ i >= Len(s.mask_preview_frames)
       THEN [s EXCEPT !.vis_mask_preview = FALSE]
       ELSE [s EXCEPT !.vis_mask_preview = TRUE,
                      !.mask_pix = s.mask_preview_frames[i + 1]]

\* a per-frame update that forgets the view mode
update_infill_preview_any_mode(s, frame_idx) ==
  LET i == frame_idx - s.infill_preview_start_frame IN
  IF s.infill_preview_frames = << >> THEN s
  ELSE IF i < 0 \/ i >= Len(s.infill_preview_frames)
       THEN [s EXCEPT !.vis_infill_preview = FALSE]
       ELSE [s EXCEPT !.vis_infill_preview = TRUE,
                      !.infill_pix = s.infill_preview_frames[i + 1]]

\* _update_infill_preview_for_frame
update_infill_preview_for_frame(s, frame_idx) ==
  LET i == frame_idx - s.infill_preview_start_frame IN
  IF s.infill_preview_frames = << >> THEN s
  ELSE IF s.show_mode # "infilled" THEN s
  ELSE IF i < 0 \/ i >= Len(s.infill_preview_frames)
       THEN [s EXCEPT !.vis_infill_preview = FALSE]
       ELSE [s EXCEPT !.vis_infill_preview = TRUE,
                      !.infill_pix = s.infill_preview_frames[i + 1]]

update_previews(s, frame_idx) ==
  update_infill_preview_for_frame(update_mask_preview_for_frame(s, frame_idx),
                                  frame_idx)

\* VideoView.set_base_visible
set_base_visible(s, which, use_infill_preview) ==
  IF which = "original"
  THEN [s EXCEPT !.vis_orig = TRUE, !.vis_infill = FALSE,
                 !.vis_infill_preview = FALSE]
  ELSE [s EXCEPT !.vis_orig = FALSE,
                 !.vis_infill_preview = use_infill_preview,
                 !.vis_infill = ~use_infill_preview]

\* The guards the engine puts on every repositioning of a follower.
infill_follower_active(s) ==
  s.show_mode = "infilled" /\ s.infill_preview_frames = << >>

mask_follower_active(s) ==
  s.vis_mask /\ s.mask_preview_frames = << >>

\* player_infill / mask_player: setPosition and play of a follower player
infill_setPosition(s, p) ==
  IF s.infilled_video_path THEN [s EXCEPT !.infill_pos = p] ELSE s

infill_play(s) ==
  IF s.infilled_video_path THEN [s EXCEPT !.infill_playing = TRUE] ELSE s

mask_setPosition(s, p) ==
  IF s.mask_video_path THEN [s EXCEPT !.mask_pos = p] ELSE s

mask_play(s) ==
  IF s.mask_video_path THEN [s EXCEPT !.mask_playing = TRUE] ELSE s

\* self.keyframes.get(frame_idx): the keyframe object, or None.
kf_get(s, frame_idx) ==
  IF frame_idx \in DOMAIN s.keyframes THEN {frame_idx} ELSE {}

\* "self._last_frame_ms or self.player_orig.position()"
last_or_position(s) ==
  IF s.last_frame_ms # 0 THEN s.last_frame_ms ELSE s.orig_pos

\* -------------------------------------------------- the master player
\* _on_master_position_changed
on_master_position_changed(s, position) ==
  IF ~s.slider_down THEN [s EXCEPT !.slider = position] ELSE s

\* player_orig.setPosition: positionChanged is emitted on a change.
orig_setPosition(s, p) ==
  IF ~s.orig_loaded \/ s.orig_pos = p THEN s
  ELSE on_master_position_changed([s EXCEPT !.orig_pos = p], p)

\* the guarded follower setPosition calls of seek and _snap_all_to
infill_follow(s, pos_ms) ==
  IF infill_follower_active(s) THEN infill_setPosition(s, pos_ms) ELSE s

mask_follow(s, pos_ms) ==
  IF mask_follower_active(s) THEN mask_setPosition(s, pos_ms) ELSE s

\* a repositioning that forgets the guards
followers_setPosition_unguarded(s, pos_ms) ==
  mask_setPosition(infill_setPosition(s, pos_ms), pos_ms)

followers_setPosition(s, pos_ms) == mask_follow(infill_follow(s, pos_ms), pos_ms)

\* a refresh that leaves the overlay on the keyframe it had
refresh_frame_index_only(s, pos_ms) ==
  IF FpsResolved(s)
  THEN [s EXCEPT !.last_frame_idx = ms_to_frame(pos_ms, s.fps)]
  ELSE s

\* the frame index and the overlay follow a position (seek, snap)
refresh_frame(s, pos_ms) ==
  IF FpsResolved(s)
  THEN [s EXCEPT !.last_frame_idx = ms_to_frame(pos_ms, s.fps),
                 !.overlay_kf = kf_get(s, ms_to_frame(pos_ms, s.fps))]
  ELSE s

\* the two preview updates for self._last_frame_idx
refresh_previews(s) == update_previews(s, s.last_frame_idx)

pos_slider_setValue(s, v) == [s EXCEPT !.slider = v]

\* _snap_all_to
snap_all_to(s, pos_ms, snap_orig) ==
  pos_slider_setValue(
    refresh_previews(
      refresh_frame(
        followers_setPosition(
          IF snap_orig THEN orig_setPosition(s, pos_ms) ELSE s, pos_ms),
        pos_ms)),
    pos_ms)

\* self._snap_all_to(self._last_frame_ms or self.player_orig.position())
snap_to_master(s) == snap_all_to(s, last_or_position(s), FALSE)

\* _on_master_state_changed
on_master_state_changed(s, state) ==
  IF state # "Playing" THEN snap_all_to(s, last_or_position(s), TRUE) ELSE s

\* player_orig.play() / pause(): playbackStateChanged on a change.
orig_play(s) ==
  IF ~s.orig_loaded \/ s.orig_state = "Playing" THEN s
  ELSE on_master_state_changed([s EXCEPT !.orig_state = "Playing"], "Playing")

orig_pause(s) ==
  IF ~s.orig_loaded \/ s.orig_state = "Paused" THEN s
  ELSE on_master_state_changed([s EXCEPT !.orig_state = "Paused"], "Paused")

\* ------------------------------------------------------------ transport
\* play_all: the infill and the mask branch
infill_start(s, cur) ==
  IF infill_follower_active(s) THEN infill_play(infill_setPosition(s, cur))
  ELSE [s EXCEPT !.infill_playing = FALSE]

\* a start of the mask player that forgets its guard
mask_start_always(s, cur) == mask_play(mask_setPosition(s, cur))

mask_start(s, cur) ==
  IF mask_follower_active(s) THEN mask_play(mask_setPosition(s, cur))
  ELSE [s EXCEPT !.mask_playing = FALSE]

resync_timer_start(s) == [s EXCEPT !.resync_timer = TRUE]

play_all_from(s, cur) ==
  resync_timer_start(
    mask_start(infill_start(orig_play(orig_setPosition(s, cur)), cur), cur))

play_all(s) == play_all_from(s, last_or_position(s))

\* pause_all: the three pause() calls and the timer stop
pause_players(s) ==
  [orig_pause(s) EXCEPT !.infill_playing = FALSE, !.mask_playing = FALSE,
                        !.resync_timer = FALSE]

pause_all(s) == snap_to_master(pause_players(s))

\* a seek that never lets the recorded position go back
seek_mark_forward_only(s, pos_ms) ==
  [s EXCEPT !.last_frame_ms = IF pos_ms > @ THEN pos_ms ELSE @,
            !.slider = IF s.slider_down THEN s.slider ELSE pos_ms]

\* seek: _last_frame_ms and the slider
seek_mark(s, pos_ms) ==
  [s EXCEPT !.last_frame_ms = pos_ms,
            !.slider = IF s.slider_down THEN s.slider ELSE pos_ms]

\* seek: the closing snap when the master is not playing
seek_snap(s, pos_ms) ==
  IF s.orig_state # "Playing" THEN snap_all_to(s, pos_ms, FALSE) ELSE s

seek(s, pos_ms) ==
  seek_snap(
    refresh_previews(
      refresh_frame(
        seek_mark(followers_setPosition(orig_setPosition(s, pos_ms), pos_ms),
                  pos_ms),
        pos_ms)),
    pos_ms)

stop(s) == seek(s, 0)

toggle_play(s) ==
  IF s.orig_state = "Playing" THEN pause_all(s) ELSE play_all(s)

\* _slider_pressed
slider_pressed(s) == [s EXCEPT !.slider_down = TRUE]

\* pos_slider.sliderMoved -> seek: the user has put the handle on value
slider_moved(s, value) == seek([s EXCEPT !.slider = value], value)

\* _slider_released: the seek to the handle's value, and the 30 ms timer
slider_released(s) ==
  [seek([s EXCEPT !.slider_down = FALSE], s.slider)
     EXCEPT !.slider_timer = @ + 1]

\* the 30 ms timer: pos_slider.setValue(self._last_frame_ms)
slider_timer_fire(s) ==
  [s EXCEPT !.slider_timer = @ - 1, !.slider = s.last_frame_ms]

\* a decode notification that moves the slider during a drag too
frame_mark_slider_always(s, pos_ms) ==
  [s EXCEPT !.last_frame_ms = pos_ms,
            !.last_frame_idx = IF FpsResolved(s) THEN ms_to_frame(pos_ms, s.fps)
                               ELSE @,
            !.slider = pos_ms]

\* a position that only moves forward
frame_pos_forward_only(s, ts_us) ==
  IF ts_us >= 0 /\ ts_us \div 1000 > s.last_frame_ms THEN ts_us \div 1000
  ELSE s.last_frame_ms

\* _on_master_frame_changed: ts_us is frame.startTime(), negative when the
\* frame carries no valid timestamp.
frame_pos_ms(s, ts_us) == IF ts_us >= 0 THEN ts_us \div 1000 ELSE s.orig_pos

frame_mark(s, pos_ms) ==
  [s EXCEPT !.last_frame_ms = pos_ms,
            !.last_frame_idx = IF FpsResolved(s) THEN ms_to_frame(pos_ms, s.fps)
                               ELSE @,
            !.slider = IF ~s.slider_down THEN pos_ms ELSE @]

overlay_setKeyframe(s) ==
  [s EXCEPT !.overlay_kf = kf_get(s, s.last_frame_idx)]

on_master_frame_changed(s, ts_us) ==
  refresh_previews(overlay_setKeyframe(frame_mark(s, frame_pos_ms(s, ts_us))))

Abs(x) == IF x < 0 THEN -x ELSE x

\* _playing_resync: the infill and the mask branch
infill_resync(s, master_ms) ==
  IF infill_follower_active(s)
     /\ Abs(s.infill_pos - master_ms) > resync_threshold_ms
  THEN infill_setPosition(s, master_ms) ELSE s

mask_resync(s, master_ms) ==
  IF mask_follower_active(s)
     /\ Abs(s.mask_pos - master_ms) > resync_threshold_ms
  THEN mask_setPosition(s, master_ms) ELSE s

\* a drift corrector that does not look at the master's play state
playing_resync_any_state(s) ==
  mask_resync(infill_resync(s, last_or_position(s)), last_or_position(s))

playing_resync(s) ==
  IF s.orig_state # "Playing" THEN s
  ELSE mask_resync(infill_resync(s, last_or_position(s)), last_or_position(s))

\* ----------------------------------------------- mode, mask visibility
\* set_mode: show_mode and the base layer
set_mode_show(s, mode) ==
  set_base_visible([s EXCEPT !.show_mode = mode], mode,
                   mode = "infilled" /\ s.infill_preview_frames # << >>)

\* set_mode: resume playback, or snap
set_mode_resume(s, was_playing) ==
  IF was_playing THEN play_all(s) ELSE snap_to_master(s)

set_mode(s, mode) ==
  IF mode = s.show_mode THEN s
  ELSE set_mode_resume(set_mode_show(pause_all(s), mode),
                       s.orig_state = "Playing")

\* set_mask_visible: the two items (and the checkbox the call comes from)
mask_items_setVisible(s, vis) ==
  [s EXCEPT !.vis_mask_preview = vis /\ s.mask_preview_frames # << >>,
            !.vis_mask = vis /\ s.mask_preview_frames = << >>,
            !.mask_visible = vis]

\* set_mask_visible: the mask player
mask_player_follow(s, vis, cur) ==
  IF vis /\ s.mask_preview_frames = << >>
  THEN IF s.orig_state = "Playing"
       THEN mask_play(mask_setPosition(s, cur))
       ELSE [mask_setPosition(s, cur) EXCEPT !.mask_playing = FALSE]
  ELSE [s EXCEPT !.mask_playing = FALSE]

\* set_mask_visible: the preview update
mask_preview_follow(s, vis) ==
  IF vis /\ s.mask_preview_frames # << >>
  THEN update_mask_preview_for_frame(s, s.last_frame_idx) ELSE s

set_mask_visible(s, vis) ==
  mask_preview_follow(
    mask_player_follow(mask_items_setVisible(s, vis), vis, last_or_position(s)),
    vis)

\* set_mask_opacity: opacities are kept in hundredths
clamp_alpha(value) ==
  IF value < 0 THEN 0 ELSE IF value > 100 THEN 100 ELSE value

set_mask_opacity(s, value) ==
  [s EXCEPT !.mask_opacity = clamp_alpha(value),
            !.mask_preview_opacity = clamp_alpha(value)]

\* ------------------------------------------------------- RAM previews
clear_mask_preview(s) ==
  [s EXCEPT !.mask_preview_frames = << >>, !.mask_preview_start_frame = 0,
            !.vis_mask_preview = FALSE]

\* start_given = FALSE is start_frame=None
default_start_frame(s) == IF FpsResolved(s) THEN s.last_frame_idx ELSE 0

set_mask_preview_frames(s, frames, start_given, start_frame) ==
  IF frames = << >> THEN clear_mask_preview(s)
  ELSE update_mask_preview_for_frame(
         [s EXCEPT !.mask_preview_frames = frames,
                   !.mask_preview_start_frame =
                      IF start_given THEN start_frame ELSE default_start_frame(s),
                   !.vis_mask = FALSE, !.vis_mask_preview = TRUE,
                   !.mask_preview_opacity = 50],
         s.last_frame_idx)

\* clear_infill_preview: the base layer, when the mode is "infilled"
infill_base_restore(s) ==
  IF s.show_mode = "infilled" THEN set_base_visible(s, "infilled", FALSE) ELSE s

clear_infill_preview(s) ==
  infill_base_restore([s EXCEPT !.infill_preview_frames = << >>,
                                !.infill_preview_start_frame = 0])

\* set_infill_preview_frames: the base layer, when the mode is "infilled"
infill_preview_show(s) ==
  IF s.show_mode = "infilled"
  THEN update_infill_preview_for_frame(set_base_visible(s, "infilled", TRUE),
                                       s.last_frame_idx)
  ELSE s

set_infill_preview_frames(s, frames, start_given, start_frame) ==
  IF frames = << >> THEN clear_infill_preview(s)
  ELSE infill_preview_show(
         [s EXCEPT !.infill_preview_frames = frames,
                   !.infill_preview_start_frame =
                      IF start_given THEN start_frame ELSE default_start_frame(s)])

\* ---------------------------------------------------------- load media
\* a source that opens; one that does not leaves the player without media
source_opens(meta) == meta.kind # "fail"

\* player_orig.setSource: playback stops (the state slot runs on a change)
\* and the position returns to 0.
orig_setSource(s, meta) ==
  orig_setPosition(
    IF s.orig_state # "Stopped"
    THEN on_master_state_changed(
           [s EXCEPT !.orig_state = "Stopped", !.orig_loaded = source_opens(meta),
                     !.orig_meta = meta], "Stopped")
    ELSE [s EXCEPT !.orig_loaded = source_opens(meta), !.orig_meta = meta],
    0)

\* a load that keeps the frame rate of the previous master
load_original_keeps_fps(s, meta) ==
  orig_setSource([s EXCEPT !.poster_ready = FALSE], meta)

load_original(s, meta) ==
  orig_setSource([s EXCEPT !.poster_ready = FALSE, !.fps = NoFps], meta)

load_infilled(s) ==
  [(IF s.infill_preview_frames # << >> THEN clear_infill_preview(s) ELSE s)
     EXCEPT !.infill_playing = FALSE, !.infill_pos = 0]

\* a load that keeps the layer's preview buffer
load_mask_keeps_preview(s) == [s EXCEPT !.mask_playing = FALSE, !.mask_pos = 0]

load_mask(s) ==
  [(IF s.mask_preview_frames # << >> THEN clear_mask_preview(s) ELSE s)
     EXCEPT !.mask_playing = FALSE, !.mask_pos = 0]

\* _on_master_media_status: the ValueError cases leave the handler.
fps_metadata_ok(meta) == meta.kind = "num" /\ meta.val[1] > 0

\* _on_master_media_status: fps from the metadata, when it is still None
fps_from_metadata(s) ==
  IF ~FpsResolved(s) THEN [s EXCEPT !.fps = s.orig_meta.val] ELSE s

\* _on_master_media_status: QTimer.singleShot(0, _show_first_master_frame)
poster_schedule(s) ==
  IF s.orig_state # "Playing"
  THEN [s EXCEPT !.poster_timer = s.poster_timer + 1] ELSE s

on_master_media_status(s, status) ==
  IF s.poster_ready THEN s
  ELSE IF status \notin {"LoadedMedia", "BufferedMedia"} THEN s
  ELSE IF ~FpsResolved(s) /\ ~fps_metadata_ok(s.orig_meta) THEN s
  ELSE poster_schedule(fps_from_metadata(s))

\* _show_first_master_frame: the master's poster play and the queued pause
poster_play(s) ==
  [orig_play(orig_setPosition(s, 0)) EXCEPT !.pause_timer = s.pause_timer + 1,
                                            !.last_frame_ms = 0]

poster_frame(s) ==
  IF FpsResolved(s)
  THEN [s EXCEPT !.last_frame_idx = 0, !.overlay_kf = kf_get(s, 0)] ELSE s

poster_base(s) ==
  set_base_visible(s, s.show_mode,
                   s.show_mode = "infilled" /\ s.infill_preview_frames # << >>)

poster_infill(s) ==
  IF infill_follower_active(s)
  THEN infill_setPosition([s EXCEPT !.infill_playing = FALSE], 0) ELSE s

poster_mask(s) ==
  IF mask_follower_active(s)
  THEN mask_setPosition([s EXCEPT !.mask_playing = FALSE], 0) ELSE s

poster_done(s) == [s EXCEPT !.slider = 0, !.poster_ready = TRUE]

show_first_master_frame(s) ==
  IF s.orig_state = "Playing" THEN [s EXCEPT !.poster_ready = TRUE]
  ELSE poster_done(
         update_previews(
           poster_mask(poster_infill(poster_base(poster_frame(poster_play(s))))),
           0))

\* ------------------------------------------------------------ MainWindow
\* a mode request that is never turned down
mode_never_rejected(s, mode) == FALSE

main_set_mode_rejected(s, mode) ==
  mode = "infilled" /\ ~s.infilled_video_path /\ s.infill_preview_frames = << >>

\* rb_original.setChecked(True): toggled(True) runs set_mode("original")
rb_original_setChecked(s) ==
  IF s.rb_mode = "original" THEN s
  ELSE set_mode([s EXCEPT !.rb_mode = "original"], "original")

\* MainWindow.set_mode
main_set_mode(s, mode) ==
  IF main_set_mode_rejected(s, mode) THEN rb_original_setChecked(s)
  ELSE set_mode(s, mode)

\* MainWindow.load_color_video
load_color_video(s, meta) ==
  main_set_mode(rb_original_setChecked(load_original(s, meta)), "original")

\* a read loop that does not stop at max_frames
load_frames_loop_no_limit(n, start_frame, max_frames, idx, frames) ==
  [k \in 1..(IF n > start_frame THEN n - start_frame ELSE 0) |->
     start_frame + k - 1]

\* tools.load_video_frames_from_path for a file of n frames that OpenCV
\* opens or not: the while loop, a frame being the index it has in the file
RECURSIVE load_frames_loop(_, _, _, _, _)
load_frames_loop(n, start_frame, max_frames, idx, frames) ==
  IF idx >= n THEN frames
  ELSE IF idx >= start_frame
       THEN IF max_frames > 0 /\ Len(frames) + 1 >= max_frames
            THEN Append(frames, idx)
            ELSE load_frames_loop(n, start_frame, max_frames, idx + 1,
                                  Append(frames, idx))
       ELSE load_frames_loop(n, start_frame, max_frames, idx + 1, frames)

\* the two assertions; error is "" when the frames are returned
load_video_frames_from_path(opens, n, start_frame, max_frames) ==
  IF ~opens THEN [frames |-> << >>, error |-> "Failed to open video"]
  ELSE IF load_frames_loop(n, start_frame, max_frames, 0, << >>) = << >>
       THEN [frames |-> << >>, error |-> "No frames read"]
       ELSE [frames |-> load_frames_loop(n, start_frame, max_frames, 0, << >>),
             error |-> ""]

\* ------------------------------------------------------------ diffuerase
\* A frame is one row of FrameWidth pixels; a mask is a row of 0 and 1.
\* scipy.ndimage.binary_dilation(m > 0, iterations=k)
binary_dilation(m, iterations) ==
  [x \in 1..FrameWidth |->
     IF \E y \in 1..FrameWidth : m[y] = 1 /\ Abs(x - y) <= iterations
     THEN 1 ELSE 0]

\* cv2.distanceTransform(b, DIST_L2, 5): the distance of a non-zero pixel to
\* the nearest zero pixel, 0 on a zero pixel; without a zero pixel the
\* distance is larger than the frame
distanceTransform(b) ==
  [x \in 1..FrameWidth |->
     IF b[x] = 0 THEN 0
     ELSE IF \A y \in 1..FrameWidth : b[y] # 0 THEN 2 * FrameWidth
     ELSE CHOOSE d \in 1..FrameWidth :
            /\ \E y \in 1..FrameWidth : b[y] = 0 /\ Abs(x - y) = d
            /\ \A y \in 1..FrameWidth : b[y] = 0 => Abs(x - y) >= d]

bitwise_not(b) == [x \in 1..FrameWidth |-> 1 - b[x]]

\* alpha, as a numerator over alpha_den: np.clip(0.5 + (d_in - d_out) /
\* (2 * feather_px), 0, 1), and the hard composite for feather_px <= 0
alpha_den(feather_px) == IF feather_px > 0 THEN 2 * feather_px ELSE 1

alpha_num(m_bin, feather_px, x) ==
  IF feather_px > 0
  THEN LET a == feather_px + distanceTransform(m_bin)[x]
                - distanceTransform(bitwise_not(m_bin))[x]
       IN  IF a < 0 THEN 0 ELSE IF a > 2 * feather_px THEN 2 * feather_px ELSE a
  ELSE m_bin[x]

\* the pixels of original frame i, and of a frame the inpainting model returns
orig_px(i) == [x \in 1..FrameWidth |-> 10 * i + x]

inpainted_px == [x \in 1..FrameWidth |-> 200]

\* np.clip(np.rint(alpha3 * out + (1.0 - alpha3) * orig), 0, 255)
composite(out, orig, m_bin, feather_px) ==
  [x \in 1..FrameWidth |->
     RoundHalfEven(alpha_num(m_bin, feather_px, x) * out[x]
                   + (alpha_den(feather_px) - alpha_num(m_bin, feather_px, x))
                     * orig[x],
                   alpha_den(feather_px))]

\* the body of the closing loop for frame i: the resize and the composite
infill_merge_frame(i, m_bin, keep_unmasked_original, feather_px) ==
  [size |-> "original",
   px |-> IF keep_unmasked_original
          THEN composite(inpainted_px, orig_px(i), m_bin, feather_px)
          ELSE inpainted_px]

\* run_infill_on_frames for n >= 1 frames with the same mask on each: the
\* model returns n frames, at another size when resized; the return
\* statement stands in the body of the closing loop, so the loop ends after
\* frame 0
run_infill_on_frames(n, mask, mask_dilation_iter, resized, keep_unmasked_original, feather_px) ==
  [i \in 1..n |->
     IF i = 1
     THEN infill_merge_frame(0, binary_dilation(mask, mask_dilation_iter),
                             keep_unmasked_original, feather_px)
     ELSE [size |-> IF resized THEN "model" ELSE "original",
           px |-> inpainted_px]]

\* MainWindow.open_infilled_video: the radio button decides on set_mode
infilled_mode_follow(s) ==
  IF s.rb_mode = "infilled" THEN main_set_mode(s, "infilled") ELSE s

open_infilled_video(s) ==
  infilled_mode_follow(load_infilled([s EXCEPT !.infilled_video_path = TRUE]))

\* MainWindow.open_mask_video: the checkbox decides on set_mask_visible
mask_visible_follow(s) ==
  IF s.mask_visible THEN set_mask_visible(s, TRUE) ELSE s

open_mask_video(s) ==
  mask_visible_follow(load_mask([s EXCEPT !.mask_video_path = TRUE]))

\* ------------------------------------------------------ annotation store
\* Coordinates are display pixels (the normalized value times the overlay
\* rectangle's width or height), so that distances compare with R_px.
Keyframe(fi) ==
  [frame_idx |-> fi, pos_clicks |-> << >>, neg_clicks |-> << >>, rects |-> << >>]

\* a current frame index stuck on the first frame
first_frame_idx(s) == 0

current_frame_idx(s) == s.last_frame_idx

InsertAt(seq, row, x) ==
  SubSeq(seq, 1, row) \o <<x>> \o SubSeq(seq, row + 1, Len(seq))

RemoveAt(seq, i) == SubSeq(seq, 1, i - 1) \o SubSeq(seq, i + 1, Len(seq))

\* the first index of seq whose element satisfies P, 0 when there is none
FirstIdx(seq, P(_)) ==
  IF \E i \in 1..Len(seq) : P(seq[i])
  THEN CHOOSE i \in 1..Len(seq) :
         P(seq[i]) /\ \A j \in 1..(i - 1) : ~P(seq[j])
  ELSE 0

\* a chip that always goes to the end of the bar
add_kf_chip_append(s, fi) ==
  IF \E i \in 1..Len(s.kf_list) : s.kf_list[i] = fi THEN s
  ELSE [s EXCEPT !.kf_list = Append(s.kf_list, fi)]

\* _add_kf_chip: no duplicate; before the first chip of a larger frame
add_kf_chip(s, fi) ==
  LET Larger(t) == fi < t
      r == FirstIdx(s.kf_list, Larger)
      insert_row == IF r = 0 THEN Len(s.kf_list) ELSE r - 1
  IN  IF \E i \in 1..Len(s.kf_list) : s.kf_list[i] = fi THEN s
      ELSE [s EXCEPT !.kf_list = InsertAt(s.kf_list, insert_row, fi)]

\* _remove_kf_chip
remove_kf_chip(s, fi) ==
  LET Same(t) == t = fi
      r == FirstIdx(s.kf_list, Same)
  IN  IF r = 0 THEN s ELSE [s EXCEPT !.kf_list = RemoveAt(s.kf_list, r)]

\* _get_or_make_kf at the current frame index
get_or_make_kf(s) ==
  LET fi == current_frame_idx(s) IN
  IF fi \in DOMAIN s.keyframes THEN s
  ELSE add_kf_chip([s EXCEPT !.keyframes = (fi :> Keyframe(fi)) @@ s.keyframes],
                   fi)

kf_is_empty(kf) ==
  kf.pos_clicks = << >> /\ kf.neg_clicks = << >> /\ kf.rects = << >>

\* a delete that keeps the emptied keyframe
prune_never(s, fi) == s

\* _prune_if_empty, for the keyframe object stored under fi
prune_if_empty(s, fi) ==
  LET s1 == [s EXCEPT !.keyframes =
                 [k \in (DOMAIN s.keyframes) \ {fi} |-> s.keyframes[k]]]
      s2 == remove_kf_chip(s1, fi)
  IN  IF kf_is_empty(s.keyframes[fi])
      THEN [s2 EXCEPT !.overlay_kf = kf_get(s2, current_frame_idx(s2))]
      ELSE s

\* _on_add_positive / _on_add_negative / _on_add_rect
on_add_positive(s, nx, ny) ==
  LET s1 == get_or_make_kf(s)
      fi == current_frame_idx(s1)
  IN  [s1 EXCEPT !.keyframes[fi].pos_clicks =
                    Append(@, [x |-> nx, y |-> ny, obj |-> s1.current_object]),
                 !.overlay_kf = {fi}]

on_add_negative(s, nx, ny) ==
  LET s1 == get_or_make_kf(s)
      fi == current_frame_idx(s1)
  IN  [s1 EXCEPT !.keyframes[fi].neg_clicks =
                    Append(@, [x |-> nx, y |-> ny, obj |-> s1.current_object]),
                 !.overlay_kf = {fi}]

on_add_rect(s, nx, ny, nw, nh) ==
  LET s1 == get_or_make_kf(s)
      fi == current_frame_idx(s1)
  IN  [s1 EXCEPT !.keyframes[fi].rects =
                    Append(@, [x |-> nx, y |-> ny, w |-> nw, h |-> nh,
                               obj |-> s1.current_object]),
                 !.overlay_kf = {fi}]

\* a test that finds every point near
near_point_anywhere(nx, ny, p) == TRUE

\* pop_near_point's test: (dx*dx + dy*dy) ** 0.5 <= R_px
near_point(nx, ny, p) ==
  (nx - p.x) * (nx - p.x) + (ny - p.y) * (ny - p.y) <= R_px * R_px

near_rect_edge(nx, ny, r) ==
  LET left   == Abs(nx - r.x) <= R_px
                /\ r.y - R_px <= ny /\ ny <= r.y + r.h + R_px
      right  == Abs(nx - (r.x + r.w)) <= R_px
                /\ r.y - R_px <= ny /\ ny <= r.y + r.h + R_px
      top    == Abs(ny - r.y) <= R_px
                /\ r.x - R_px <= nx /\ nx <= r.x + r.w + R_px
      bottom == Abs(ny - (r.y + r.h)) <= R_px
                /\ r.x - R_px <= nx /\ nx <= r.x + r.w + R_px
  IN  left \/ right \/ top \/ bottom

\* _on_delete_at
on_delete_at(s, nx, ny) ==
  LET fi == current_frame_idx(s)
      kf == s.keyframes[fi]
      NearP(p) == near_point(nx, ny, p)
      NearR(r) == near_rect_edge(nx, ny, r)
      ip == FirstIdx(kf.pos_clicks, NearP)
      in == FirstIdx(kf.neg_clicks, NearP)
      ir == FirstIdx(kf.rects, NearR)
      popped == IF ip # 0
                THEN [s EXCEPT !.keyframes[fi].pos_clicks = RemoveAt(@, ip)]
                ELSE IF in # 0
                THEN [s EXCEPT !.keyframes[fi].neg_clicks = RemoveAt(@, in)]
                ELSE [s EXCEPT !.keyframes[fi].rects = RemoveAt(@, ir)]
  IN  IF fi \notin DOMAIN s.keyframes THEN s
      ELSE IF ip = 0 /\ in = 0 /\ ir = 0 THEN s
      ELSE prune_if_empty([popped EXCEPT !.overlay_kf = {fi}], fi)

set_current_object(s, obj_id) ==
  IF obj_id >= 1 THEN [s EXCEPT !.current_object = obj_id] ELSE s

\* _on_kf_clicked
on_kf_clicked(s, fi) ==
  IF FpsResolved(s) THEN seek(s, frame_to_ms(fi, s.fps)) ELSE s

\* MainWindow._annotations_dict_for_frames([fi])["keyframes"] is not empty
has_annotations_at(s, fi) ==
  fi \in DOMAIN s.keyframes /\ ~kf_is_empty(s.keyframes[fi])

\* MainWindow.on_preview_mask_clicked, for a color video of n frames: what
\* it reports, and the session it leaves.  The masker returns one mask per
\* frame it is given.
preview_mask_report(s, n) ==
  IF load_video_frames_from_path(s.orig_loaded, n, s.last_frame_idx, 1).error # ""
  THEN load_video_frames_from_path(s.orig_loaded, n, s.last_frame_idx, 1).error
  ELSE IF ~has_annotations_at(s, s.last_frame_idx) THEN "No keyframe selected"
  ELSE ""

on_preview_mask_clicked(s, n) ==
  IF preview_mask_report(s, n) # "" THEN s
  ELSE set_mask_preview_frames(s, <<1>>, FALSE, 0)

\* to_json_obj: the "keyframes" list, in sorted(self.keyframes.items()) order
RECURSIVE SortedSeq(_)
SortedSeq(S) ==
  IF S = {} THEN << >>
  ELSE LET m == CHOOSE x \in S : \A y \in S : x <= y
       IN  <<m>> \o SortedSeq(S \ {m})

to_json_obj(s) ==
  LET keys == SortedSeq(DOMAIN s.keyframes)
  IN  [i \in 1..Len(keys) |->
         [frame_idx |-> s.keyframes[keys[i]].frame_idx,
          pos_clicks |-> s.keyframes[keys[i]].pos_clicks,
          neg_clicks |-> s.keyframes[keys[i]].neg_clicks,
          rects |-> s.keyframes[keys[i]].rects]]

\* an object id that is always the default
get_obj_default(v) == 1

\* load_from_json_obj: v.get("obj", 1) of a dict entry
get_obj(v) == IF "obj" \in DOMAIN v THEN v.obj ELSE 1

\* load_from_json_obj: parse_pts / parse_rects on dict entries that have
\* their coordinates
parse_pts(L) ==
  [i \in 1..Len(L) |-> [x |-> L[i].x, y |-> L[i].y, obj |-> get_obj(L[i])]]

parse_rects(L) ==
  [i \in 1..Len(L) |->
     [x |-> L[i].x, y |-> L[i].y, w |-> L[i].w, h |-> L[i].h, obj |-> get_obj(L[i])]]

\* v["x"], v["y"] (v["w"], v["h"]) of a dict entry without that key raise
\* KeyError; nothing in parse_pts, parse_rects or the loop catches it
pts_raise(L) == \E i \in 1..Len(L) : ~({"x", "y"} \subseteq DOMAIN L[i])

rects_raise(L) ==
  \E i \in 1..Len(L) : ~({"x", "y", "w", "h"} \subseteq DOMAIN L[i])

entry_raises(entry) ==
  \/ pts_raise(entry.pos_clicks) \/ pts_raise(entry.neg_clicks)
  \/ rects_raise(entry.rects)

import_raises(obj) == \E i \in 1..Len(obj) : entry_raises(obj[i])

\* load_from_json_obj: the body of the loop, for one entry
import_entry(s, entry) ==
  add_kf_chip(
    [s EXCEPT !.keyframes =
        (entry.frame_idx :>
           [frame_idx |-> entry.frame_idx,
            pos_clicks |-> parse_pts(entry.pos_clicks),
            neg_clicks |-> parse_pts(entry.neg_clicks),
            rects |-> parse_rects(entry.rects)]) @@ s.keyframes],
    entry.frame_idx)

\* the loop: it ends at the first entry that raises
RECURSIVE import_entries(_, _)
import_entries(s, entries) ==
  IF entries = << >> THEN s
  ELSE IF entry_raises(Head(entries)) THEN s
  ELSE import_entries(import_entry(s, Head(entries)), Tail(entries))

\* the exception leaves the function before the overlay is refreshed
load_from_json_obj(s, obj) ==
  IF import_raises(obj)
  THEN import_entries([s EXCEPT !.keyframes = << >>, !.kf_list = << >>], obj)
  ELSE overlay_setKeyframe(
         import_entries([s EXCEPT !.keyframes = << >>, !.kf_list = << >>], obj))

\* _on_delete_at: the line it prints
delete_report(s, nx, ny) ==
  LET fi == current_frame_idx(s)
      NearP(p) == near_point(nx, ny, p)
      NearR(r) == near_rect_edge(nx, ny, r)
  IN  IF fi \notin DOMAIN s.keyframes THEN ""
      ELSE IF FirstIdx(s.keyframes[fi].pos_clicks, NearP) # 0
              \/ FirstIdx(s.keyframes[fi].neg_clicks, NearP) # 0
           THEN "deleted point"
      ELSE IF FirstIdx(s.keyframes[fi].rects, NearR) # 0
           THEN "deleted rectangle"
      ELSE ""

\* the number of annotations in the store
RECURSIVE SumOver(_, _)
SumOver(f, S) ==
  IF S = {} THEN 0
  ELSE LET k == CHOOSE x \in S : TRUE IN f[k] + SumOver(f, S \ {k})

store_size(s) ==
  SumOver([k \in DOMAIN s.keyframes |->
             Len(s.keyframes[k].pos_clicks) + Len(s.keyframes[k].neg_clicks)
             + Len(s.keyframes[k].rects)],
          DOMAIN s.keyframes)

\* ---------------------------------------------------------------- inputs
FrameIdxs == 0..MaxStep
PreviewBuffers == {[i \in 1..n |-> i] : n \in {0, MaxPreviewLen}}
DecodeTs == {-1} \cup {1000 * t + 999 : t \in TimesMs}
MediaStatuses == {"LoadingMedia", "LoadedMedia", "BufferedMedia"}
ValidMeta == {[kind |-> "num", val |-> f] : f \in MetaFps}
NoMeta == [kind |-> "none", val |-> NoFps]
\* two points closer to each other than R_px, one rectangle, and the places
\* of a delete request: on a point, on the rectangle's right edge, nowhere
PointInputs == {[x |-> 0, y |-> 0], [x |-> 6, y |-> 0]}
RectInputs == {[x |-> 0, y |-> 0, w |-> 20, h |-> 20]}
DeleteInputs == {[x |-> 0, y |-> 0], [x |-> 20, y |-> 10], [x |-> 100, y |-> 100]}
\* annotation records: one positive point of object 1 on each frame of a set
JsonEntry(fi) ==
  [frame_idx |-> fi, pos_clicks |-> <<[x |-> 0, y |-> 0, obj |-> 1]>>,
   neg_clicks |-> << >>, rects |-> << >>]
\* an entry whose point and rectangle have no "obj" key
JsonEntryNoObj(fi) ==
  [frame_idx |-> fi, pos_clicks |-> <<[x |-> 6, y |-> 0]>>,
   neg_clicks |-> << >>,
   rects |-> <<[x |-> 0, y |-> 0, w |-> 20, h |-> 20]>>]
\* an entry whose second point has no "x" key
JsonEntryBadCoord(fi) ==
  [frame_idx |-> fi,
   pos_clicks |-> <<[x |-> 0, y |-> 0, obj |-> 2], [y |-> 0, obj |-> 1]>>,
   neg_clicks |-> << >>, rects |-> << >>]
\* an entry with no points and no rectangles
JsonEntryEmpty(fi) ==
  [frame_idx |-> fi, pos_clicks |-> << >>, neg_clicks |-> << >>, rects |-> << >>]
\* A record is numbered by the kind of entry it has for each frame, read as
\* the digits of the number.
EntryKinds == <<"none", "ok", "no_obj", "bad_coord", "empty">>
EntryKind(c, fi) ==
  EntryKinds[((c \div (Len(EntryKinds) ^ fi)) % Len(EntryKinds)) + 1]
JsonEntryOfKind(k, fi) ==
  IF k = "ok" THEN JsonEntry(fi)
  ELSE IF k = "no_obj" THEN JsonEntryNoObj(fi)
  ELSE IF k = "bad_coord" THEN JsonEntryBadCoord(fi)
  ELSE JsonEntryEmpty(fi)
RecordFrames(c) ==
  SortedSeq({fi \in 0..MaxImportFrame : EntryKind(c, fi) # "none"})
JsonRecord(c) ==
  [i \in 1..Len(RecordFrames(c)) |->
     JsonEntryOfKind(EntryKind(c, RecordFrames(c)[i]), RecordFrames(c)[i])]
AnyRecords == 0..(Len(EntryKinds) ^ (MaxImportFrame + 1) - 1)
JsonRecords ==
  {c \in AnyRecords :
     \A fi \in 0..MaxImportFrame : EntryKind(c, fi) \in {"none", "ok"}}
Modes == {"original", "infilled"}

\* a source that fails to open
FailedSource == [kind |-> "fail", val |-> NoFps]
\* what the player reports for the source it was given
load_outcome(opens) == IF opens THEN "" ELSE "InvalidMedia"

\* --------------------------------------------------------------- actions
\* user / host requests
LoadColorVideo(metas) ==
  \E meta \in metas :
    /\ Set(load_color_video(State, meta), "load_original", 0,
           load_outcome(source_opens(meta)), "")

\* (the integer argument recorded for a load is the length of the layer's
\* preview buffer at the time of the call)
\* load_infilled and load_mask do not look at whether the source opens
OpenInfilledVideo(sources) ==
  \E opens \in sources :
    /\ Set(open_infilled_video(State), "load_infilled",
           Len(infill_preview_frames), load_outcome(opens), "")

OpenMaskVideo(sources) ==
  \E opens \in sources :
    /\ Set(open_mask_video(State), "load_mask", Len(mask_preview_frames),
           load_outcome(opens), "")

PlayAll ==
  /\ Set(play_all(State), "play_all", 0, "", "")

PauseAll ==
  /\ Set(pause_all(State), "pause_all", 0, "", "")

Stop ==
  /\ Set(stop(State), "stop", 0, "", "")

Seek(times) ==
  \E p \in times :
    /\ Set(seek(State, p), "seek", p, "", "")

\* a click on a view-mode radio button that is not checked yet
SelectMode ==
  \E mode \in Modes :
    /\ rb_mode # mode
    /\ Set(main_set_mode([State EXCEPT !.rb_mode = mode], mode), "set_mode", 0,
           mode,
           IF main_set_mode_rejected(State, mode) THEN "Infilled missing" ELSE "")

SetMaskVisible ==
  \E vis \in BOOLEAN :
    /\ Set(set_mask_visible(State, vis), "set_mask_visible", 0,
        IF vis THEN "True" ELSE "False", "")

\* the Preview button of the mask row; the color video file has n frames
PreviewMaskClicked(lengths) ==
  \E n \in lengths :
    /\ Set(on_preview_mask_clicked(State, n), "preview_mask", n, "",
           preview_mask_report(State, n))

SetMaskOpacity(values) ==
  \E value \in values :
    /\ Set(set_mask_opacity(State, value), "set_mask_opacity", value, "", "")

SetMaskPreview(givens) ==
  \E frames \in PreviewBuffers, given \in givens, start \in FrameIdxs :
    /\ given \/ start = 0
    /\ Set(set_mask_preview_frames(State, frames, given, start),
           "set_mask_preview_frames", Len(frames), "", "")

ClearMaskPreview ==
  /\ Set(clear_mask_preview(State), "clear_mask_preview", 0, "", "")

SetInfillPreview(givens) ==
  \E frames \in PreviewBuffers, given \in givens, start \in FrameIdxs :
    /\ given \/ start = 0
    /\ Set(set_infill_preview_frames(State, frames, given, start),
           "set_infill_preview_frames", Len(frames), "", "")

ClearInfillPreview ==
  /\ Set(clear_infill_preview(State), "clear_infill_preview", 0, "", "")

\* the media backend and the timers
MediaStatus ==
  \E status \in MediaStatuses :
    /\ orig_loaded
    /\ poster_timer < MaxPending
    /\ Set(on_master_media_status(State, status), "media_status", 0, status,
           IF ~poster_ready /\ status \in {"LoadedMedia", "BufferedMedia"}
              /\ ~FpsResolved(State) /\ ~fps_metadata_ok(orig_meta)
           THEN "ValueError" ELSE "")

\* the two zero-delay timers fire
poster_timer_fire(s) ==
  show_first_master_frame([s EXCEPT !.poster_timer = @ - 1])

pause_timer_fire(s) == orig_pause([s EXCEPT !.pause_timer = @ - 1])

PosterTimer ==
  /\ poster_timer > 0
  /\ pause_timer < MaxPending
  /\ Set(poster_timer_fire(State), "show_first_master_frame", 0, "", "")

PauseTimer ==
  /\ pause_timer > 0
  /\ Set(pause_timer_fire(State), "deferred_pause", 0, "", "")

Decode(stamps) ==
  \E ts_us \in stamps :
    /\ orig_loaded
    /\ Set(on_master_frame_changed(State, ts_us), "frame_changed", ts_us, "", "")

ResyncTick ==
  /\ resync_timer
  /\ Set(playing_resync(State), "playing_resync", 0, "", "")

\* the players advance on their own clocks while they play
MasterAdvance ==
  \E p \in TimesMs :
    /\ orig_state = "Playing" /\ p > orig_pos
    /\ Set(orig_setPosition(State, p), "master_advance", p, "", "")

InfillAdvance ==
  \E p \in TimesMs :
    /\ infill_playing /\ p > infill_pos
    /\ Set([State EXCEPT !.infill_pos = p], "infill_advance", p, "", "")

MaskAdvance ==
  \E p \in TimesMs :
    /\ mask_playing /\ p > mask_pos
    /\ Set([State EXCEPT !.mask_pos = p], "mask_advance", p, "", "")

\* the master reaches the end of the media: Playing -> Stopped
EndOfMedia ==
  /\ orig_state = "Playing"
  /\ Set(on_master_state_changed([State EXCEPT !.orig_state = "Stopped"],
                                 "Stopped"),
         "end_of_media", 0, "", "")

\* annotation requests from the overlay
AddPositive ==
  \E pt \in PointInputs :
    /\ store_size(State) < MaxAnn
    /\ Set(on_add_positive(State, pt.x, pt.y), "add_positive", 0, "", "")

AddNegative ==
  \E pt \in PointInputs :
    /\ store_size(State) < MaxAnn
    /\ Set(on_add_negative(State, pt.x, pt.y), "add_negative", 0, "", "")

AddRect ==
  \E r \in RectInputs :
    /\ store_size(State) < MaxAnn
    /\ Set(on_add_rect(State, r.x, r.y, r.w, r.h), "add_rect", 0, "", "")

\* (the integer argument recorded is the request's x, which tells the
\* places of DeleteInputs apart)
DeleteAt ==
  \E at \in DeleteInputs :
    /\ Set(on_delete_at(State, at.x, at.y), "delete_at", at.x, "",
           delete_report(State, at.x, at.y))

SetCurrentObject ==
  \E obj_id \in 0..MaxObj :
    /\ Set(set_current_object(State, obj_id), "set_current_object", obj_id, "", "")

KfClicked ==
  \E i \in 1..Len(kf_list) :
    /\ Set(on_kf_clicked(State, kf_list[i]), "kf_clicked", kf_list[i], "", "")

\* File > Load annotations
LoadAnnotations(records) ==
  \E c \in records :
    /\ Set(load_from_json_obj(State, JsonRecord(c)), "load_from_json_obj", c, "",
           IF import_raises(JsonRecord(c)) THEN "KeyError" ELSE "")

\* the position slider: press, drag, release, and the release's timer
SliderPressed ==
  /\ ~slider_down
  /\ Set(slider_pressed(State), "slider_pressed", 0, "", "")

SliderMoved(times) ==
  \E value \in times :
    /\ slider_down
    /\ Set(slider_moved(State, value), "slider_moved", value, "", "")

SliderReleased ==
  /\ slider_down
  /\ slider_timer < MaxPending
  /\ Set(slider_released(State), "slider_released", slider, "", "")

SliderTimer ==
  /\ slider_timer > 0
  /\ Set(slider_timer_fire(State), "slider_timer", 0, "", "")

\* File > Load annotations of a file whose entries are on the given frames,
\* in the given order
LoadAnnotationFrames(orders) ==
  \E frames \in orders :
    /\ Set(load_from_json_obj(State, [i \in 1..Len(frames) |-> JsonEntry(frames[i])]),
           "load_from_json_obj", Len(frames), "frames", "")

\* File > Save annotations followed by File > Load annotations of the file
\* just written
SaveLoadAnnotations ==
  /\ Set(load_from_json_obj(State, to_json_obj(State)), "save_load",
         Len(to_json_obj(State)), "", "")

\* ------------------------------------------------------------------ Init
\* VideoPlayer.__init__ and MainWindow.__init__ up to the autoload
Constructed ==
  [orig_loaded |-> FALSE, orig_meta |-> NoMeta,
   orig_state |-> "Stopped", orig_pos |-> 0,
   infill_playing |-> FALSE, infill_pos |-> 0,
   mask_playing |-> FALSE, mask_pos |-> 0,
   last_frame_ms |-> 0, last_frame_idx |-> 0,
   fps |-> NoFps, poster_ready |-> FALSE, show_mode |-> "original",
   resync_timer |-> FALSE, slider_down |-> FALSE, slider |-> 0,
   current_object |-> 1,
   vis_orig |-> TRUE, vis_infill |-> FALSE,
   vis_infill_preview |-> FALSE, vis_mask |-> FALSE,
   vis_mask_preview |-> FALSE, mask_pix |-> 0, infill_pix |-> 0,
   mask_preview_frames |-> << >>, mask_preview_start_frame |-> 0,
   infill_preview_frames |-> << >>, infill_preview_start_frame |-> 0,
   keyframes |-> << >>, overlay_kf |-> {}, kf_list |-> << >>,
   poster_timer |-> 0, pause_timer |-> 0, slider_timer |-> 0,
   mask_opacity |-> 40, mask_preview_opacity |-> 100,
   infilled_video_path |-> FALSE, mask_video_path |-> FALSE,
   rb_mode |-> "original", mask_visible |-> FALSE]

\* MainWindow.__init__: the autoload of the media named on the command line
\* (cb_show_mask.setChecked(True) runs set_mask_visible(True), which the
\* constructor then calls once more)
autoload_color(s, color_video, meta) ==
  IF color_video THEN load_color_video(s, meta) ELSE s

autoload_mask(s, mask_video) ==
  IF mask_video
  THEN set_mask_visible(
         set_mask_visible(load_mask([s EXCEPT !.mask_video_path = TRUE]), TRUE),
         TRUE)
  ELSE s

autoload_infilled(s, infilled_video) ==
  IF infilled_video
  THEN load_infilled([s EXCEPT !.infilled_video_path = TRUE]) ELSE s

MainWindow_init(color_video, meta, mask_video, infilled_video) ==
  autoload_infilled(
    autoload_mask(autoload_color(Constructed, color_video, meta), mask_video),
    infilled_video)

InitSession(s) ==
  \E t \in {s} :
    /\ orig_loaded = t.orig_loaded
    /\ orig_meta = t.orig_meta
    /\ orig_state = t.orig_state
    /\ orig_pos = t.orig_pos
    /\ infill_playing = t.infill_playing
    /\ infill_pos = t.infill_pos
    /\ mask_playing = t.mask_playing
    /\ mask_pos = t.mask_pos
    /\ last_frame_ms = t.last_frame_ms
    /\ last_frame_idx = t.last_frame_idx
    /\ fps = t.fps
    /\ poster_ready = t.poster_ready
    /\ show_mode = t.show_mode
    /\ resync_timer = t.resync_timer
    /\ slider_down = t.slider_down
    /\ slider = t.slider
    /\ current_object = t.current_object
    /\ vis_orig = t.vis_orig
    /\ vis_infill = t.vis_infill
    /\ vis_infill_preview = t.vis_infill_preview
    /\ vis_mask = t.vis_mask
    /\ vis_mask_preview = t.vis_mask_preview
    /\ mask_pix = t.mask_pix
    /\ infill_pix = t.infill_pix
    /\ mask_preview_frames = t.mask_preview_frames
    /\ mask_preview_start_frame = t.mask_preview_start_frame
    /\ infill_preview_frames = t.infill_preview_frames
    /\ infill_preview_start_frame = t.infill_preview_start_frame
    /\ keyframes = t.keyframes
    /\ overlay_kf = t.overlay_kf
    /\ kf_list = t.kf_list
    /\ poster_timer = t.poster_timer
    /\ pause_timer = t.pause_timer
    /\ slider_timer = t.slider_timer
    /\ mask_opacity = t.mask_opacity
    /\ mask_preview_opacity = t.mask_preview_opacity
    /\ infilled_video_path = t.infilled_video_path
    /\ mask_video_path = t.mask_video_path
    /\ rb_mode = t.rb_mode
    /\ mask_visible = t.mask_visible
    /\ op = [name |-> "init", arg |-> 0, sarg |-> "", report |-> ""]

\* the mapper's operands are not in use
mapper_idle ==
  /\ map_fps = NoFps /\ map_i = 0 /\ map_ms = 0 /\ map_back = 0
  /\ map_pc = "idle"

\* no call into tools or diffuerase has been made
NoCall ==
  [fn |-> "none", opens |-> FALSE, n |-> 0, start_frame |-> 0,
   max_frames |-> 0, frames |-> << >>, error |-> "",
   mask |-> << >>, mask_dilation_iter |-> 0, resized |-> FALSE,
   keep_unmasked_original |-> FALSE, feather_px |-> 0, out |-> << >>]

tools_idle == tool = NoCall

InitOf(s) == InitSession(s) /\ mapper_idle /\ tools_idle

\* the session's variables, which the mapper specification leaves alone
session_vars ==
  <<orig_loaded, orig_meta, orig_state, orig_pos, infill_playing, infill_pos,
    mask_playing, mask_pos, last_frame_ms, last_frame_idx, fps, poster_ready,
    show_mode, resync_timer, slider_down, slider, current_object, vis_orig,
    vis_infill, vis_infill_preview, vis_mask, vis_mask_preview, mask_pix,
    infill_pix, mask_preview_frames, mask_preview_start_frame,
    infill_preview_frames, infill_preview_start_frame, keyframes, overlay_kf,
    kf_list, poster_timer, pause_timer, slider_timer, mask_opacity,
    mask_preview_opacity, infilled_video_path,
    mask_video_path, rb_mode, mask_visible, op>>

\* a call of tools.load_video_frames_from_path on a file of n frames
LoadVideoFrames ==
  \E opens \in BOOLEAN, n \in 0..MaxVideoFrames,
     start_frame \in -1..(MaxVideoFrames + 1),
     max_frames \in -1..(MaxVideoFrames + 1) :
    /\ tool' = [NoCall EXCEPT
                  !.fn = "load_video_frames_from_path", !.opens = opens,
                  !.n = n, !.start_frame = start_frame,
                  !.max_frames = max_frames,
                  !.frames = load_video_frames_from_path(opens, n, start_frame,
                                                         max_frames).frames,
                  !.error = load_video_frames_from_path(opens, n, start_frame,
                                                        max_frames).error]
    /\ UNCHANGED <<session_vars, map_fps, map_i, map_ms, map_back, map_pc>>

\* a call of diffuerase.run_infill_on_frames
RunInfill ==
  \E n \in 1..MaxVideoFrames, mask \in [1..FrameWidth -> {0, 1}],
     mask_dilation_iter \in {0, 1}, resized \in BOOLEAN,
     keep_unmasked_original \in BOOLEAN, feather_px \in {0, 2} :
    /\ tool' = [NoCall EXCEPT
                  !.fn = "run_infill_on_frames", !.n = n, !.mask = mask,
                  !.mask_dilation_iter = mask_dilation_iter,
                  !.resized = resized,
                  !.keep_unmasked_original = keep_unmasked_original,
                  !.feather_px = feather_px,
                  !.out = run_infill_on_frames(n, mask, mask_dilation_iter,
                                               resized, keep_unmasked_original,
                                               feather_px)]
    /\ UNCHANGED <<session_vars, map_fps, map_i, map_ms, map_back, map_pc>>

\* started with a color, a mask and an infilled video on the command line
Init == \E meta \in ValidMeta : InitOf(MainWindow_init(TRUE, meta, TRUE, TRUE))

\* started without media
InitEmpty == InitOf(Constructed)

\* the load callbacks have run: LoadedMedia, the poster frame, its pause
session_ready(s) ==
  pause_timer_fire(poster_timer_fire(on_master_media_status(s, "LoadedMedia")))

\* a session whose master shows its poster frame, paused, with fps resolved
InitReady(metas, infilled_video) ==
  \E meta \in metas :
    InitOf(session_ready(MainWindow_init(TRUE, meta, TRUE, infilled_video)))

\* ------------------------------------------- transport and drift (Spec)
\* A session with the three media loaded: the load callbacks, the transport,
\* the view mode, the mask checkbox, the decode notifications, the drift
\* corrector and the players' own clocks.
Next ==
  \/ PlayAll \/ PauseAll \/ Stop \/ Seek(TimesMs)
  \/ SelectMode \/ SetMaskVisible
  \/ MediaStatus \/ PosterTimer \/ PauseTimer
  \/ Decode(DecodeTs) \/ ResyncTick
  \/ MasterAdvance \/ InfillAdvance \/ MaskAdvance \/ EndOfMedia

Spec == Init /\ [][Next]_vars

\* the followers that play from a file and are the active source of a layer
infill_follower_live == infill_follower_active(State) /\ infilled_video_path

mask_follower_live == mask_follower_active(State) /\ mask_video_path

\* C1: after pause_all, every active non-preview follower is exactly at the
\* master's position, which is the timestamp of the master's most recently
\* decoded frame (or the target of a more recent seek), last_frame_ms.
C1_PauseSnapsFollowers ==
  op.name = "pause_all" =>
    /\ infill_follower_live => infill_pos = last_frame_ms
    /\ mask_follower_live => mask_pos = last_frame_ms

\* C4: on a drift tick while the master plays, an active non-preview
\* follower within resync_threshold_ms of the master's position is left
\* where it is, and one farther away is put on the master's position.
C4_DriftTick ==
  [][(op'.name = "playing_resync" /\ orig_state = "Playing") =>
       /\ infill_follower_live =>
            infill_pos' = IF Abs(infill_pos - last_frame_ms) > resync_threshold_ms
                          THEN last_frame_ms ELSE infill_pos
       /\ mask_follower_live =>
            mask_pos' = IF Abs(mask_pos - last_frame_ms) > resync_threshold_ms
                        THEN last_frame_ms ELSE mask_pos]_vars

\* ------------------------------------- infill preview (SpecInfillPreview)
\* The infill layer of a ready session: transport, view mode, the infill
\* preview buffer, decode notifications, the drift corrector, the clocks.
NextInfillPreview ==
  \/ PlayAll \/ PauseAll \/ Seek(TimesMs) \/ SelectMode
  \/ SetInfillPreview(BOOLEAN) \/ ClearInfillPreview
  \/ Decode(DecodeTs) \/ ResyncTick \/ MasterAdvance \/ InfillAdvance

SpecInfillPreview ==
  InitReady(ValidMeta, TRUE) /\ [][NextInfillPreview]_vars

\* C2: right after a preview buffer is set with a non-empty frame list, in
\* any play state, the layer's file-backed follower player is not playing;
\* and while the buffer stays set no handler repositions that player (its
\* position changes, if at all, by its own clock).
C2_PreviewSuppressesFollower ==
  [][/\ (op'.name = "set_infill_preview_frames" /\ op'.arg > 0)
          => ~infill_playing'
     /\ (op'.name = "set_mask_preview_frames" /\ op'.arg > 0)
          => ~mask_playing'
     /\ (infill_preview_frames # << >> /\ infill_preview_frames' # << >>
         /\ op'.name # "infill_advance") => infill_pos' = infill_pos
     /\ (mask_preview_frames # << >> /\ mask_preview_frames' # << >>
         /\ op'.name # "mask_advance") => mask_pos' = mask_pos]_vars

\* ----------------------------------------- mask preview (SpecMaskPreview)
\* The mask layer of a ready session: transport, the mask checkbox, the
\* mask preview buffer, decode notifications, the drift corrector, the
\* clocks.
NextMaskPreview ==
  \/ PlayAll \/ PauseAll \/ Seek(TimesMs) \/ SetMaskVisible
  \/ SetMaskPreview(BOOLEAN) \/ ClearMaskPreview
  \/ Decode(DecodeTs) \/ ResyncTick \/ MasterAdvance \/ MaskAdvance

SpecMaskPreview == InitReady(ValidMeta, TRUE) /\ [][NextMaskPreview]_vars

\* C3: after clear_mask_preview with mask visibility enabled the file-backed
\* mask item is visible and its player is an active follower again, and
\* after clear_infill_preview in mode "infilled" so are the file-backed
\* infilled item and its player.
C3_ClearRestoresFile ==
  /\ (op.name = "clear_mask_preview" /\ mask_visible)
       => (vis_mask /\ mask_follower_active(State))
  /\ (op.name = "clear_infill_preview" /\ show_mode = "infilled")
       => (vis_infill /\ infill_follower_active(State))

\* ------------------------------------------- preview lookup (SpecPreview)
\* Both preview buffers of a ready session, set with every start frame, the
\* view mode, and the decode notifications that move the frame index.
NextPreview ==
  \/ SelectMode \/ SetMaskPreview(BOOLEAN) \/ SetInfillPreview(BOOLEAN)
  \/ Decode(DecodeTs)

SpecPreview == InitReady(ValidMeta, TRUE) /\ [][NextPreview]_vars

\* the layer shows frames[idx - start] inside the buffer's range and is
\* hidden outside it
preview_frame_for(frames, start, idx, visible, pix) ==
  IF start <= idx /\ idx < start + Len(frames)
  THEN visible /\ pix = frames[idx - start + 1]
  ELSE ~visible

\* C7: with a preview buffer of n >= 1 frames and start frame s set, the
\* layer shows frames[idx - s] when s <= idx < s + n for the current frame
\* index idx and is hidden otherwise (the infill preview is the base layer
\* of mode "infilled" only).
C7_PreviewFrameFor ==
  /\ mask_preview_frames # << >> =>
       preview_frame_for(mask_preview_frames, mask_preview_start_frame,
                         last_frame_idx, vis_mask_preview, mask_pix)
  /\ (infill_preview_frames # << >> /\ show_mode = "infilled") =>
       preview_frame_for(infill_preview_frames, infill_preview_start_frame,
                         last_frame_idx, vis_infill_preview, infill_pix)

\* a decode notification put the mask preview on its last frame and the
\* infill preview one frame past its end
C7_Witness ==
  /\ op.name = "frame_changed"
  /\ mask_preview_frames # << >> /\ infill_preview_frames # << >>
  /\ show_mode = "infilled"
  /\ last_frame_idx = mask_preview_start_frame + Len(mask_preview_frames) - 1
  /\ vis_mask_preview
  /\ mask_pix = mask_preview_frames[Len(mask_preview_frames)]
  /\ last_frame_idx = infill_preview_start_frame + Len(infill_preview_frames)
  /\ ~vis_infill_preview

\* ------------------------------------------------ view mode (SpecMode)
\* A ready session started without an infilled video: transport, the view
\* mode buttons, opening an infilled video, the infill preview buffer.
NextMode ==
  \/ PlayAll \/ PauseAll \/ Seek(TimesMs) \/ SelectMode
  \/ OpenInfilledVideo({TRUE}) \/ SetInfillPreview({FALSE}) \/ ClearInfillPreview
  \/ Decode(DecodeTs) \/ MasterAdvance \/ EndOfMedia

SpecMode == InitReady(ValidMeta, FALSE) /\ [][NextMode]_vars

\* C8: a request for mode "infilled" with no infilled file loaded and no
\* infill preview buffer set is reported ("Infilled missing") and changes
\* neither the mode, which is "original", nor the visible base layer, nor
\* the play state.
C8_InfilledRejected ==
  [][(op'.name = "set_mode" /\ op'.sarg = "infilled"
      /\ ~infilled_video_path /\ infill_preview_frames = << >>) =>
       /\ op'.report = "Infilled missing"
       /\ show_mode' = "original" /\ show_mode = "original"
       /\ rb_mode' = "original"
       /\ <<vis_orig, vis_infill, vis_infill_preview>>'
            = <<vis_orig, vis_infill, vis_infill_preview>>
       /\ <<orig_state, infill_playing, mask_playing, resync_timer>>'
            = <<orig_state, infill_playing, mask_playing, resync_timer>>]_vars

\* the request was turned down while the master was playing
C8_Witness ==
  /\ op.name = "set_mode" /\ op.sarg = "infilled"
  /\ op.report = "Infilled missing"
  /\ orig_state = "Playing" /\ resync_timer
  /\ show_mode = "original" /\ vis_orig

\* ------------------------------------------- annotation store (SpecStore)
\* A ready session with an empty store: annotation requests on the displayed
\* frame, the object selector, and the seeks that change the displayed frame.
\* the positions of the first and the third frame at 50 frames per second
StoreTimesMs == {0, 40}

NextStore ==
  \/ Seek(StoreTimesMs) \/ KfClicked
  \/ AddPositive \/ AddNegative \/ AddRect \/ DeleteAt
  \/ SetCurrentObject

SpecStore == InitReady(ValidMeta, TRUE) /\ [][NextStore]_vars

\* C5: after every sequence of add-positive, add-negative, add-rectangle and
\* delete-at operations, a frame index has a keyframe in the store if and
\* only if that keyframe holds at least one point or rectangle: no stored
\* keyframe is empty, and a keyframe that holds something is stored under
\* its own index and listed once among the chips.
C5_AbsentIffEmpty ==
  /\ \A fi \in DOMAIN keyframes :
       /\ ~kf_is_empty(keyframes[fi])
       /\ keyframes[fi].frame_idx = fi
  /\ \A fi \in FrameIdxs :
       (fi \in DOMAIN keyframes) <=> (\E i \in 1..Len(kf_list) : kf_list[i] = fi)
  /\ op.name \in {"add_positive", "add_negative", "add_rect"} =>
       last_frame_idx \in DOMAIN keyframes

\* deleting the last point of the displayed frame removed its keyframe
C5_Witness ==
  /\ op.name = "delete_at" /\ op.report = "deleted point"
  /\ last_frame_idx \notin DOMAIN keyframes
  /\ keyframes # << >>

\* the annotations of one kind that the store holds for frame i
stored_pos(kfs, i) == IF i \in DOMAIN kfs THEN kfs[i].pos_clicks ELSE << >>
stored_neg(kfs, i) == IF i \in DOMAIN kfs THEN kfs[i].neg_clicks ELSE << >>
stored_rects(kfs, i) == IF i \in DOMAIN kfs THEN kfs[i].rects ELSE << >>

\* C9: an annotation added while the displayed frame index is i is stored
\* last in the keyframe with frame_idx = i, carries the current object id
\* (which is >= 1), leaves the other keyframes alone, and the exported
\* record then has exactly one keyframe entry with frame_idx = i.
C9_AddAtDisplayedFrame ==
  [][op'.name \in {"add_positive", "add_negative", "add_rect"} =>
       /\ last_frame_idx' = last_frame_idx
       /\ current_object >= 1
       /\ last_frame_idx \in DOMAIN keyframes'
       /\ keyframes'[last_frame_idx].frame_idx = last_frame_idx
       /\ \A k \in DOMAIN keyframes' :
            k # last_frame_idx => k \in DOMAIN keyframes /\ keyframes'[k] = keyframes[k]
       /\ op'.name = "add_positive" =>
            /\ Len(stored_pos(keyframes', last_frame_idx))
                 = Len(stored_pos(keyframes, last_frame_idx)) + 1
            /\ stored_pos(keyframes', last_frame_idx)
                 [Len(stored_pos(keyframes', last_frame_idx))].obj = current_object
            /\ stored_neg(keyframes', last_frame_idx) = stored_neg(keyframes, last_frame_idx)
            /\ stored_rects(keyframes', last_frame_idx) = stored_rects(keyframes, last_frame_idx)
       /\ op'.name = "add_negative" =>
            /\ Len(stored_neg(keyframes', last_frame_idx))
                 = Len(stored_neg(keyframes, last_frame_idx)) + 1
            /\ stored_neg(keyframes', last_frame_idx)
                 [Len(stored_neg(keyframes', last_frame_idx))].obj = current_object
            /\ stored_pos(keyframes', last_frame_idx) = stored_pos(keyframes, last_frame_idx)
            /\ stored_rects(keyframes', last_frame_idx) = stored_rects(keyframes, last_frame_idx)
       /\ op'.name = "add_rect" =>
            /\ Len(stored_rects(keyframes', last_frame_idx))
                 = Len(stored_rects(keyframes, last_frame_idx)) + 1
            /\ stored_rects(keyframes', last_frame_idx)
                 [Len(stored_rects(keyframes', last_frame_idx))].obj = current_object
            /\ stored_pos(keyframes', last_frame_idx) = stored_pos(keyframes, last_frame_idx)
            /\ stored_neg(keyframes', last_frame_idx) = stored_neg(keyframes, last_frame_idx)
       /\ LET exported == to_json_obj([keyframes |-> keyframes'])
          IN  Cardinality({k \in 1..Len(exported) :
                             exported[k].frame_idx = last_frame_idx}) = 1]_vars

\* a rectangle of object 2 was added on frame 2 while frame 0 holds a keyframe
C9_Witness ==
  /\ op.name = "add_rect"
  /\ last_frame_idx = 2 /\ current_object = 2
  /\ DOMAIN keyframes = {0, 2}
  /\ keyframes[2].rects # << >>
  /\ keyframes[2].rects[Len(keyframes[2].rects)].obj = 2
  /\ Len(to_json_obj(State)) = 2 /\ to_json_obj(State)[2].frame_idx = 2

\* ---------------------------------------------- seek and overlay (SpecSeek)
\* frame rates on either side of one frame per millisecond
SeekFps == {<<50, 1>>, <<2000, 1>>}
SeekMeta == {[kind |-> "num", val |-> f] : f \in SeekFps}

\* A ready session: seeks, stops and chip clicks in every play state, over a
\* store filled by clicks and by File > Load annotations.
NextSeek ==
  \/ Seek(TimesMs) \/ Stop \/ KfClicked
  \/ PlayAll \/ PauseAll \/ Decode(DecodeTs)
  \/ LoadAnnotations(JsonRecords) \/ AddPositive

SpecSeek == InitReady(SeekMeta, TRUE) /\ [][NextSeek]_vars

\* the position a seek request asked for
seek_target ==
  IF op.name = "kf_clicked" THEN frame_to_ms(op.arg, fps) ELSE op.arg

\* right after a seek, last_frame_idx is the frame of the target and the
\* overlay shows the store's keyframe for that index, or none
seek_refreshed ==
  op.name \in {"seek", "stop", "kf_clicked"} =>
    /\ FpsResolved(State)
    /\ last_frame_ms = seek_target
    /\ last_frame_idx = ms_to_frame(seek_target, fps)
    /\ overlay_kf = kf_get(State, last_frame_idx)

\* C10: with fps resolved, right after seek(pos_ms) in any play state,
\* last_frame_idx = ms_to_frame(pos_ms, fps) and the overlay shows exactly
\* the store's keyframe for that index, or none; seeking to
\* frame_to_ms(i, fps) shows the keyframe stored for frame i when the frame
\* rate is at most 1000 frames per second.
C10_SeekShowsKeyframe ==
  /\ seek_refreshed
  /\ (op.name = "kf_clicked" /\ fps[1] <= 1000 * fps[2]) =>
       last_frame_idx = op.arg /\ overlay_kf = {op.arg}

\* C10 as stated: seeking to frame_to_ms(i, fps) shows the keyframe stored
\* for frame i at every resolved frame rate.
C10_AsStated ==
  /\ seek_refreshed
  /\ op.name = "kf_clicked" =>
       last_frame_idx = op.arg /\ overlay_kf = {op.arg}

\* a chip click while playing showed the keyframe of frame 1
C10_Witness ==
  /\ op.name = "kf_clicked" /\ op.arg = 1
  /\ orig_state = "Playing"
  /\ last_frame_idx = 1 /\ last_frame_ms = frame_to_ms(1, fps)
  /\ overlay_kf = {1} /\ 0 \in DOMAIN keyframes

\* ------------------------------------------ frame-time mapper (SpecMapper)
\* frame rates of real containers, and rates around one frame per millisecond
MapFps ==
  {<<24000, 1001>>, <<30, 1>>, <<30000, 1001>>, <<50, 1>>, <<1, 1>>, <<1, 2>>,
   <<999, 1>>, <<1000, 1>>, <<1500, 1>>, <<2000, 1>>}

InitMapper ==
  /\ InitSession(Constructed)
  /\ map_fps \in MapFps /\ map_i \in 0..MaxMapFrame
  /\ map_ms = 0 /\ map_back = 0 /\ map_pc = "start"
  /\ tools_idle

MapFrameToMs ==
  /\ map_pc = "start"
  /\ map_ms' = frame_to_ms(map_i, map_fps)
  /\ map_pc' = "ms"
  /\ UNCHANGED <<map_fps, map_i, map_back>>
  /\ UNCHANGED <<session_vars, tool>>

MapMsToFrame ==
  /\ map_pc = "ms"
  /\ map_back' = ms_to_frame(map_ms, map_fps)
  /\ map_pc' = "back"
  /\ UNCHANGED <<map_fps, map_i, map_ms>>
  /\ UNCHANGED <<session_vars, tool>>

NextMapper == MapFrameToMs \/ MapMsToFrame

SpecMapper == InitMapper /\ [][NextMapper]_vars

\* C6: for every frame rate 0 < fps <= 1000 and every frame index i >= 0,
\* ms_to_frame(frame_to_ms(i, fps), fps) = i.
C6_RoundTrip ==
  (map_pc = "back" /\ map_fps[1] <= 1000 * map_fps[2]) => map_back = map_i

\* C6 as stated: the round trip returns i at every frame rate fps > 0.
C6_AsStated ==
  map_pc = "back" => map_back = map_i

\* frame 7 at 29.97 fps is 234 ms, and 234 ms is frame 7
C6_Witness ==
  /\ map_pc = "back" /\ map_fps = <<30000, 1001>>
  /\ map_i = 7 /\ map_ms = 234 /\ map_back = 7

\* ------------------------------------------------- transport claims (Spec)
\* C11: seek(pos_ms) leaves the play state as it was and puts the master and
\* every active non-preview follower on pos_ms at once; a follower that is
\* inactive or replaced by a preview buffer keeps its position.
C11_SeekRepositions ==
  [][op'.name = "seek" =>
       /\ orig_state' = orig_state
       /\ infill_playing' = infill_playing /\ mask_playing' = mask_playing
       /\ resync_timer' = resync_timer
       /\ orig_pos' = op'.arg
       /\ infill_follower_live => infill_pos' = op'.arg
       /\ mask_follower_live => mask_pos' = op'.arg
       /\ ~infill_follower_active(State) => infill_pos' = infill_pos
       /\ ~mask_follower_active(State) => mask_pos' = mask_pos]_vars

\* a seek while playing in mode "infilled" with the mask hidden: the infill
\* follower went along, the mask player stayed
C11_Witness ==
  /\ op.name = "seek" /\ op.arg = 40
  /\ orig_state = "Playing" /\ orig_pos = 40
  /\ show_mode = "infilled" /\ infill_follower_live /\ infill_pos = 40
  /\ ~vis_mask /\ mask_pos = 0

\* C12: after stop() called while the master is Playing, the master and the
\* followers are no longer playing, the drift-corrector timer is stopped,
\* every active non-preview follower is on the master position, and the
\* position is frame 0 (last_frame_ms = 0, last_frame_idx = 0).
C12_StopFromPlaying ==
  [][(op'.name = "stop" /\ orig_state = "Playing") =>
       /\ orig_state' # "Playing"
       /\ ~infill_playing' /\ ~mask_playing'
       /\ ~resync_timer'
       /\ last_frame_ms' = 0
       /\ FpsResolved(State) => last_frame_idx' = 0
       /\ infill_follower_live' => infill_pos' = 0
       /\ mask_follower_live' => mask_pos' = 0]_vars

\* ------------------------------------------- play and previews (SpecPlay)
\* A ready session with the three media loaded: play and pause, the view
\* mode, the mask checkbox and both preview buffers.
NextPlay ==
  \/ PlayAll \/ PauseAll
  \/ SelectMode \/ SetMaskVisible
  \/ SetMaskPreview({FALSE}) \/ ClearMaskPreview
  \/ SetInfillPreview({FALSE}) \/ ClearInfillPreview
  \/ MasterAdvance

SpecPlay == InitReady(ValidMeta, TRUE) /\ [][NextPlay]_vars

\* C13: right after play_all() the master is playing and the drift-corrector
\* timer runs; the infill follower plays if and only if the mode is
\* "infilled" and no infill preview buffer is set; the mask follower plays
\* if and only if the file-backed mask item is visible and no mask preview
\* buffer is set; a follower that does not play is paused.
C13_PlayAllFollowers ==
  op.name = "play_all" =>
    /\ orig_state = "Playing" /\ resync_timer
    /\ infill_playing <=>
         (show_mode = "infilled" /\ infill_preview_frames = << >>)
    /\ mask_playing <=> (vis_mask /\ mask_preview_frames = << >>)

\* play_all() in mode "infilled" with an infill preview buffer set and the
\* file-backed mask visible: the mask follower plays, the infill follower
\* does not
C13_Witness ==
  /\ op.name = "play_all"
  /\ show_mode = "infilled" /\ infill_preview_frames # << >>
  /\ ~infill_playing
  /\ vis_mask /\ mask_preview_frames = << >> /\ mask_playing
  /\ orig_state = "Playing"

\* C14: set_mode(mode) with a mode other than the current one keeps the play
\* state: a master that was Playing is Playing afterwards, with the drift
\* timer running; otherwise it is not playing and every active non-preview
\* follower is on the master position.  The visible base layer afterwards is
\* the original (mode "original"), or the infill preview if one is set, else
\* the file-backed infilled item (mode "infilled").
C14_SetModeKeepsPlayState ==
  [][(op'.name = "set_mode" /\ show_mode' # show_mode) =>
       /\ orig_state = "Playing" => (orig_state' = "Playing" /\ resync_timer')
       /\ orig_state # "Playing" =>
            /\ orig_state' # "Playing"
            /\ infill_follower_live' => infill_pos' = last_frame_ms'
            /\ mask_follower_live' => mask_pos' = last_frame_ms'
       /\ show_mode' = "original" =>
            (vis_orig' /\ ~vis_infill' /\ ~vis_infill_preview')
       /\ show_mode' = "infilled" =>
            /\ ~vis_orig'
            /\ vis_infill' <=> (infill_preview_frames' = << >>)
            /\ vis_infill_preview' => infill_preview_frames' # << >>]_vars

\* -------------------------------------------- layer sources (SpecLayers)
\* A ready session with the three media loaded: the view mode, the mask
\* checkbox, both preview buffers, new files for the two follower layers,
\* and the decode notifications.
NextLayers ==
  \/ SelectMode \/ SetMaskVisible
  \/ SetMaskPreview({FALSE}) \/ ClearMaskPreview
  \/ SetInfillPreview({FALSE}) \/ ClearInfillPreview
  \/ OpenMaskVideo({TRUE}) \/ OpenInfilledVideo({TRUE})
  \/ Decode(DecodeTs)

SpecLayers == InitReady(ValidMeta, TRUE) /\ [][NextLayers]_vars

\* C15: for the mask layer and for the infilled base layer, the file-backed
\* item and the preview item are never both visible; while a preview buffer
\* is set for a layer its file-backed item is hidden; and load_mask /
\* load_infilled leave no preview buffer set for their layer.
C15_OneSourcePerLayer ==
  /\ ~(vis_mask /\ vis_mask_preview)
  /\ ~(vis_infill /\ vis_infill_preview)
  /\ mask_preview_frames # << >> => ~vis_mask
  /\ infill_preview_frames # << >> => ~vis_infill
  /\ op.name = "load_mask" => mask_preview_frames = << >>
  /\ op.name = "load_infilled" => infill_preview_frames = << >>

\* a mask file was loaded over a mask preview buffer while the infill
\* preview is the visible base layer
C15_Witness ==
  /\ op.name = "load_mask" /\ op.arg > 0
  /\ mask_preview_frames = << >> /\ ~vis_mask_preview /\ vis_mask
  /\ infill_preview_frames # << >> /\ vis_infill_preview /\ ~vis_infill

\* C16: the mask preview layer is visible only while mask visibility is
\* enabled (the last set_mask_visible call was with True): neither a mask
\* preview buffer set while visibility is off, nor a decode notification or
\* a seek after the user turned it off, makes the mask preview visible.
C16_MaskPreviewNeedsVisibility ==
  vis_mask_preview => mask_visible

\* C17: the infill preview layer is visible only if the mode is "infilled"
\* and an infill preview buffer is set; in mode "original" the original base
\* item is the only visible base layer.
C17_InfillPreviewNeedsMode ==
  /\ vis_infill_preview =>
       (show_mode = "infilled" /\ infill_preview_frames # << >>)
  /\ show_mode = "original" =>
       (vis_orig /\ ~vis_infill /\ ~vis_infill_preview)

\* a frame inside the infill preview buffer was decoded in mode "original"
C17_Witness ==
  /\ op.name = "frame_changed"
  /\ show_mode = "original" /\ infill_preview_frames # << >>
  /\ infill_preview_start_frame <= last_frame_idx
  /\ last_frame_idx < infill_preview_start_frame + Len(infill_preview_frames)
  /\ last_frame_idx > 0
  /\ vis_orig /\ ~vis_infill_preview

\* ------------------------------------- unresolved frame rate (SpecNoFps)
\* metadata without a frame rate, and with a frame rate of zero
BadMeta == {NoMeta, [kind |-> "num", val |-> <<0, 1>>]}

\* A session started with a color video whose metadata yields no positive
\* frame rate: the load callbacks, seeks and decode notifications, the
\* annotation requests and a mask preview without a start frame.
NextNoFps ==
  \/ MediaStatus \/ Seek(TimesMs) \/ Decode(DecodeTs)
  \/ AddPositive \/ DeleteAt \/ KfClicked
  \/ SetMaskPreview({FALSE})

SpecNoFps ==
  /\ \E meta \in BadMeta : InitOf(MainWindow_init(TRUE, meta, TRUE, TRUE))
  /\ [][NextNoFps]_vars

\* C18: when the master's metadata yields no positive frame rate the load
\* fails with an error and fps stays unresolved, and from then on no
\* annotation is added to or looked up from the store under a default or
\* stale frame index and no preview buffer is positioned at a default start
\* frame.  Stated for the request that directly follows the failed load: it
\* leaves the annotation store and the mask preview buffer as they were.
C18_NoFpsNoFrameOps ==
  [][/\ (op'.name = "media_status"
         /\ op'.sarg \in {"LoadedMedia", "BufferedMedia"})
          => (op'.report = "ValueError" /\ ~FpsResolved(State)')
     /\ op.report = "ValueError" =>
          /\ ~FpsResolved(State)'
          /\ keyframes' = keyframes
          /\ mask_preview_frames' = mask_preview_frames]_vars

\* ------------------------------------------- import (SpecImport)
\* A ready session: File > Load annotations with well-formed and malformed
\* records, over a store also filled by clicks, at two displayed frames.
NextImport ==
  \/ LoadAnnotations(AnyRecords) \/ AddPositive \/ DeleteAt
  \/ Seek(StoreTimesMs) \/ Decode(DecodeTs)

SpecImport == InitReady(ValidMeta, TRUE) /\ [][NextImport]_vars

\* what the entries of a list that have their coordinates import as
RECURSIVE parsed_or_skipped(_, _)
parsed_or_skipped(L, keys) ==
  IF L = << >> THEN << >>
  ELSE IF keys \subseteq DOMAIN Head(L)
       THEN <<[k \in keys \cup {"obj"} |->
                 IF k = "obj"
                 THEN (IF "obj" \in DOMAIN Head(L) THEN Head(L).obj ELSE 1)
                 ELSE Head(L)[k]]>> \o parsed_or_skipped(Tail(L), keys)
       ELSE parsed_or_skipped(Tail(L), keys)

\* the store a record imports as: one keyframe per entry
imported_store(obj) ==
  [fi \in {obj[i].frame_idx : i \in 1..Len(obj)} |->
     LET e == obj[CHOOSE i \in 1..Len(obj) : obj[i].frame_idx = fi]
     IN  [frame_idx |-> fi,
          pos_clicks |-> parsed_or_skipped(e.pos_clicks, {"x", "y"}),
          neg_clicks |-> parsed_or_skipped(e.neg_clicks, {"x", "y"}),
          rects |-> parsed_or_skipped(e.rects, {"x", "y", "w", "h"})]]

\* C19: on import an annotation entry without an object id gets object id
\* 1, and an entry whose coordinates cannot be parsed is skipped while every
\* other entry and keyframe of the record is still imported; the import is
\* never aborted and the store is never left partially loaded.
C19_ImportSkipsMalformed ==
  [][op'.name = "load_from_json_obj" =>
       /\ op'.report = ""
       /\ keyframes' = imported_store(JsonRecord(op'.arg))
       /\ kf_list' = SortedSeq(DOMAIN keyframes')
       /\ overlay_kf' = kf_get(State, last_frame_idx)']_vars

\* ------------------------------------- failing sources (SpecLoadFail)
\* A ready session with the three media loaded, in which every further load
\* is given a source that fails to open: between the loads the view mode, the
\* RAM previews and the annotations change.
NextLoadFail ==
  \/ LoadColorVideo({FailedSource})
  \/ OpenMaskVideo({FALSE}) \/ OpenInfilledVideo({FALSE})
  \/ SelectMode
  \/ SetMaskPreview({FALSE}) \/ SetInfillPreview({FALSE})
  \/ AddPositive

SpecLoadFail == InitReady(ValidMeta, TRUE) /\ [][NextLoadFail]_vars

\* C20: a load_original, load_mask or load_infilled whose source fails to
\* open leaves the session as it was: the resolved fps, the poster flag, the
\* preview buffers, the mode and the annotation store are unchanged and the
\* loaded master stays loaded.
C20_FailedLoadKeepsSession ==
  [][(op'.name \in {"load_original", "load_mask", "load_infilled"}
      /\ op'.sarg = "InvalidMedia") =>
       /\ fps' = fps /\ poster_ready' = poster_ready
       /\ mask_preview_frames' = mask_preview_frames
       /\ mask_preview_start_frame' = mask_preview_start_frame
       /\ infill_preview_frames' = infill_preview_frames
       /\ infill_preview_start_frame' = infill_preview_start_frame
       /\ show_mode' = show_mode
       /\ keyframes' = keyframes
       /\ orig_loaded' = orig_loaded]_vars

\* --------------------------------------- export / import (SpecRoundTrip)
\* A ready session: a store filled by clicks of several objects at two
\* displayed frames, saved and loaded back.
NextRoundTrip ==
  \/ AddPositive \/ AddNegative \/ AddRect
  \/ SetCurrentObject \/ Seek(StoreTimesMs)
  \/ SaveLoadAnnotations

SpecRoundTrip == InitReady(ValidMeta, TRUE) /\ [][NextRoundTrip]_vars

\* C21: export followed by import is the identity on the annotation store,
\* whatever the store held before the import (here: the same store, and the
\* different store a click leaves), and the exported keyframes are listed in
\* strictly increasing frame_idx order.
C21_ExportImportIdentity ==
  [][/\ keyframes' # keyframes =>
          load_from_json_obj(State', to_json_obj(State)).keyframes = keyframes
     /\ op'.name = "save_load" => keyframes' = keyframes
     /\ \A i \in 1..Len(to_json_obj(State)) : \A j \in 1..Len(to_json_obj(State)) :
          i < j => to_json_obj(State)[i].frame_idx < to_json_obj(State)[j].frame_idx
    ]_vars

\* a store with two keyframes, one holding a rectangle and the other a
\* positive point of object 2, was saved and loaded back
C21_Witness ==
  /\ op.name = "save_load" /\ op.arg = 2
  /\ DOMAIN keyframes = {0, 2}
  /\ keyframes[0].rects # << >>
  /\ keyframes[2].pos_clicks # << >>
  /\ keyframes[2].pos_clicks[1].obj = 2

\* ------------------------------------------------- delete-at (SpecStore)
\* C22: a delete-at request removes at most one annotation, only from the
\* keyframe of the current frame index: the first positive point within the
\* pixel threshold if any, else the first negative point within it, else the
\* first rectangle with an edge within it, else nothing; the keyframes of the
\* other frame indices are unchanged, and a request at a frame with no
\* keyframe changes nothing.
C22_DeleteAtMostOne ==
  [][\A at \in DeleteInputs :
       (op'.name = "delete_at" /\ op'.arg = at.x) =>
         LET i == last_frame_idx
             NearP(p) == (at.x - p.x) * (at.x - p.x) + (at.y - p.y) * (at.y - p.y)
                           <= R_px * R_px
             NearR(r) == near_rect_edge(at.x, at.y, r)
             pos == stored_pos(keyframes, i)
             neg == stored_neg(keyframes, i)
             rects == stored_rects(keyframes, i)
             ip == FirstIdx(pos, NearP)
             in == FirstIdx(neg, NearP)
             ir == FirstIdx(rects, NearR)
         IN  /\ last_frame_idx' = i
             /\ DOMAIN keyframes' \subseteq DOMAIN keyframes
             /\ \A k \in DOMAIN keyframes :
                  k # i => k \in DOMAIN keyframes' /\ keyframes'[k] = keyframes[k]
             /\ i \notin DOMAIN keyframes => keyframes' = keyframes
             /\ stored_pos(keyframes', i) =
                  IF ip # 0 THEN RemoveAt(pos, ip) ELSE pos
             /\ stored_neg(keyframes', i) =
                  IF ip = 0 /\ in # 0 THEN RemoveAt(neg, in) ELSE neg
             /\ stored_rects(keyframes', i) =
                  IF ip = 0 /\ in = 0 /\ ir # 0 THEN RemoveAt(rects, ir) ELSE rects
             /\ (ip = 0 /\ in = 0 /\ ir = 0) => keyframes' = keyframes]_vars

\* a delete request on two positive points within the threshold, on the third
\* frame, removed the first and kept the second
C22_Witness ==
  /\ op.name = "delete_at" /\ op.arg = 0 /\ op.report = "deleted point"
  /\ last_frame_idx = 2
  /\ stored_pos(keyframes, 2) = <<[x |-> 6, y |-> 0, obj |-> 1]>>

\* ------------------------------- previews during playback (SpecPreviewPlay)
\* a decoded frame inside the second frame at 50 frames per second
PlayDecodeTs == {20999}

\* A ready session: both preview buffers set at the displayed frame and
\* cleared (set with no frames), seeks, decode notifications, play and pause,
\* the view mode and the mask checkbox.
NextPreviewPlay ==
  \/ SetMaskPreview({FALSE}) \/ SetInfillPreview({FALSE})
  \/ Seek(StoreTimesMs) \/ Decode(PlayDecodeTs)
  \/ PlayAll \/ PauseAll
  \/ SelectMode \/ SetMaskVisible

SpecPreviewPlay == InitReady(ValidMeta, TRUE) /\ [][NextPreviewPlay]_vars

\* C23: in every reachable state a visible preview layer has the current
\* frame index inside its buffer's range [start_frame, start_frame + len)
\* and shows frames[last_frame_idx - start_frame].
C23_VisiblePreviewInRange ==
  /\ vis_mask_preview =>
       /\ mask_preview_start_frame <= last_frame_idx
       /\ last_frame_idx < mask_preview_start_frame + Len(mask_preview_frames)
       /\ mask_pix = mask_preview_frames[last_frame_idx - mask_preview_start_frame + 1]
  /\ vis_infill_preview =>
       /\ infill_preview_start_frame <= last_frame_idx
       /\ last_frame_idx < infill_preview_start_frame + Len(infill_preview_frames)
       /\ infill_pix =
            infill_preview_frames[last_frame_idx - infill_preview_start_frame + 1]

\* ------------------------------------- no empty keyframe (SpecImport)
\* C24: in every reachable state, also after the import of an annotation
\* record, the store holds no keyframe with zero points and zero rectangles.
C24_NoEmptyKeyframe ==
  \A fi \in DOMAIN keyframes :
    Len(keyframes[fi].pos_clicks) + Len(keyframes[fi].neg_clicks)
      + Len(keyframes[fi].rects) > 0

\* --------------------------------------- master position (Spec)
\* C25: whenever the engine needs the master position it uses the timestamp
\* of the most recently decoded master frame (or the target of a more recent
\* seek), last_frame_ms, for every value of it including 0, and never the
\* player's polled position.  Stated for the resume position of play_all and
\* the position given to the mask follower by set_mask_visible(True).
C25_MasterPositionFromFrame ==
  [][/\ op'.name = "play_all" =>
          /\ orig_pos' = last_frame_ms
          /\ infill_follower_live => infill_pos' = last_frame_ms
          /\ mask_follower_live => mask_pos' = last_frame_ms
     /\ (op'.name = "set_mask_visible" /\ op'.sarg = "True"
         /\ mask_preview_frames = << >>) =>
          mask_pos' = last_frame_ms]_vars

\* ----------------------------------- decode notifications (SpecDecode)
\* A ready session: decode notifications with every timestamp, in any order
\* and right after seeks, over an imported store and both preview buffers,
\* in both view modes.
\* no valid timestamp, and frames inside the first three frames at 50 frames
\* per second
FrameDecodeTs == {-1, 999, 20999, 40999}
\* the empty record and the record with one well-formed entry for frame 0
FrameRecords == {0, 1}

NextDecode ==
  \/ Decode(FrameDecodeTs) \/ Seek(StoreTimesMs)
  \/ LoadAnnotations(FrameRecords)
  \/ SetMaskPreview({FALSE}) \/ SetInfillPreview({FALSE})
  \/ SelectMode

SpecDecode == InitReady(ValidMeta, TRUE) /\ [][NextDecode]_vars

\* C26: after a decode notification carrying a valid timestamp t,
\* last_frame_ms is t (in ms) and last_frame_idx is ms_to_frame(t, fps), and
\* the overlay and both preview layers are those of that index, whether t is
\* greater than, equal to or less than the previous value and whatever seek
\* came before; only the last notification counts.
C26_DecodeSetsFrame ==
  [][(op'.name = "frame_changed" /\ op'.arg >= 0) =>
       /\ last_frame_ms' = op'.arg \div 1000
       /\ last_frame_idx' = ms_to_frame(op'.arg \div 1000, fps)
       /\ fps' = fps /\ keyframes' = keyframes
       /\ overlay_kf' = IF last_frame_idx' \in DOMAIN keyframes
                        THEN {last_frame_idx'} ELSE {}
       /\ mask_preview_frames' = mask_preview_frames
       /\ infill_preview_frames' = infill_preview_frames
       /\ mask_preview_frames # << >> =>
            preview_frame_for(mask_preview_frames, mask_preview_start_frame,
                              last_frame_idx', vis_mask_preview', mask_pix')
       /\ (infill_preview_frames # << >> /\ show_mode = "infilled") =>
            preview_frame_for(infill_preview_frames, infill_preview_start_frame,
                              last_frame_idx', vis_infill_preview', infill_pix')
    ]_vars

\* a notification for the second frame arrived after a seek to the third
\* frame: the overlay shows no keyframe although frame 0 has one, and the
\* mask preview set at the third frame is hidden
C26_Witness ==
  /\ op.name = "frame_changed" /\ op.arg = 20999
  /\ orig_pos = 40 /\ last_frame_ms = 20 /\ last_frame_idx = 1
  /\ 0 \in DOMAIN keyframes /\ overlay_kf = {}
  /\ mask_preview_frames # << >> /\ mask_preview_start_frame = 2
  /\ ~vis_mask_preview

\* ------------------------------------------ slider drag (SpecDrag)
\* A ready session in which the user presses, drags and releases the
\* position slider while decode notifications arrive, in every play state and
\* both view modes, with a mask preview and an imported keyframe.
NextDrag ==
  \/ SliderPressed \/ SliderMoved(StoreTimesMs) \/ SliderReleased \/ SliderTimer
  \/ Decode({-1, 40999})
  \/ PlayAll \/ PauseAll \/ SelectMode
  \/ SetMaskPreview({FALSE}) \/ LoadAnnotations({1})

SpecDrag == InitReady(ValidMeta, TRUE) /\ [][NextDrag]_vars

\* C28: while the user drags the position slider a decode notification does
\* not change the slider, but still updates last_frame_ms and last_frame_idx
\* and re-evaluates the overlay keyframe and both preview layers; a seek
\* issued during the drag still repositions the master and the active
\* non-preview followers.
C28_DragKeepsSlider ==
  [][/\ (op'.name = "frame_changed" /\ slider_down) =>
          /\ slider' = slider /\ slider_down'
          /\ last_frame_ms' = IF op'.arg >= 0 THEN op'.arg \div 1000 ELSE orig_pos
          /\ last_frame_idx' = ms_to_frame(last_frame_ms', fps)
          /\ overlay_kf' = IF last_frame_idx' \in DOMAIN keyframes
                           THEN {last_frame_idx'} ELSE {}
          /\ mask_preview_frames # << >> =>
               preview_frame_for(mask_preview_frames, mask_preview_start_frame,
                                 last_frame_idx', vis_mask_preview', mask_pix')
          /\ (infill_preview_frames # << >> /\ show_mode = "infilled") =>
               preview_frame_for(infill_preview_frames, infill_preview_start_frame,
                                 last_frame_idx', vis_infill_preview', infill_pix')
     /\ (op'.name \in {"seek", "slider_moved"} /\ slider_down) =>
          /\ orig_pos' = op'.arg
          /\ infill_follower_live => infill_pos' = op'.arg
          /\ mask_follower_live => mask_pos' = op'.arg
    ]_vars

\* during a drag with the handle on the first frame, a notification for the
\* third frame arrived: the slider stayed, the frame index moved and the
\* overlay left the keyframe of frame 0
C28_Witness ==
  /\ op.name = "frame_changed" /\ op.arg = 40999
  /\ slider_down /\ slider = 0
  /\ last_frame_ms = 40 /\ last_frame_idx = 2
  /\ 0 \in DOMAIN keyframes /\ overlay_kf = {}
  /\ mask_preview_frames # << >> /\ ~vis_mask_preview

\* ------------------------------------------ repeated seeks (SpecSeekTwice)
\* A ready session with both RAM previews, both modes, the mask shown or
\* hidden, every play state and a pressed slider; the seeks of the claim are
\* applied to each of its states.
NextSeekTwice ==
  \/ SetMaskPreview({FALSE}) \/ SetInfillPreview({FALSE})
  \/ Seek(StoreTimesMs)
  \/ PlayAll \/ PauseAll \/ SelectMode \/ SetMaskVisible
  \/ SliderPressed

SpecSeekTwice == InitReady(ValidMeta, TRUE) /\ [][NextSeekTwice]_vars

\* what a session shows and reports: the state without the image that a
\* hidden preview layer still holds
shown(s) ==
  [s EXCEPT !.mask_pix = IF s.vis_mask_preview THEN @ ELSE 0,
            !.infill_pix = IF s.vis_infill_preview THEN @ ELSE 0]

\* C27: for all positions p and q and from every reachable state, seek(p)
\* followed by seek(q) leaves the same state as seek(q) alone, and seek(p)
\* twice the same state as seek(p) once, up to the image held by a preview
\* layer that is hidden.
C27_SeekLastWins ==
  \A p \in TimesMs : \A q \in TimesMs :
    shown(seek(seek(State, p), q)) = shown(seek(State, q))

\* C27 as stated: the whole state is equal, the image of a hidden preview
\* layer included
C27_SeekLastWinsWholeState ==
  \A p \in TimesMs : \A q \in TimesMs :
    seek(seek(State, p), q) = seek(State, q)

\* after a seek, with a mask preview that does not cover the third frame:
\* seeking into the preview and then out of it leaves another hidden image
\* than seeking out of it directly
C27_Witness ==
  /\ op.name = "seek"
  /\ mask_preview_frames # << >>
  /\ seek(State, 20) # State
  /\ seek(seek(State, 20), 40).mask_pix # seek(State, 40).mask_pix
  /\ ~seek(State, 40).vis_mask_preview

\* ------------------------------------- drift corrector tick (SpecResync)
\* A ready session that plays, pauses and runs to the end of the media, in
\* both modes, with the mask shown or hidden and with or without a mask
\* preview, while decode notifications move the master and the followers run
\* on their own clocks; the drift corrector ticks whenever its timer runs.
NextResync ==
  \/ PlayAll \/ PauseAll \/ EndOfMedia
  \/ SelectMode \/ SetMaskVisible \/ SetMaskPreview({FALSE})
  \/ Decode(PlayDecodeTs \cup {40999})
  \/ InfillAdvance \/ MaskAdvance
  \/ ResyncTick

SpecResync == InitReady(ValidMeta, TRUE) /\ [][NextResync]_vars

\* C29: a drift-corrector tick never changes the master's position or play
\* state, last_frame_ms, last_frame_idx, the mode or any visibility flag; it
\* changes the position of no player but an active follower that plays from
\* a file, and when the master is not Playing it changes nothing at all.
C29_ResyncOnlyCorrects ==
  [][op'.name = "playing_resync" =>
       /\ UNCHANGED <<orig_pos, orig_state, orig_loaded, last_frame_ms,
                      last_frame_idx, fps, show_mode, mask_visible, rb_mode,
                      vis_orig, vis_infill, vis_infill_preview, vis_mask,
                      vis_mask_preview, slider, overlay_kf, keyframes,
                      infill_playing, mask_playing, resync_timer>>
       /\ infill_pos' # infill_pos =>
            infill_follower_live /\ infill_pos' = last_or_position(State)
       /\ mask_pos' # mask_pos =>
            mask_follower_live /\ mask_pos' = last_or_position(State)
       /\ orig_state # "Playing" => State' = State
    ]_vars

\* a tick while the master plays at 40 ms in original mode with the mask
\* shown: the mask follower was put on the master's 40 ms, the infill
\* follower, which is not the active source, stayed at 0
C29_Witness ==
  /\ op.name = "playing_resync"
  /\ orig_state = "Playing" /\ last_frame_ms = 40
  /\ mask_follower_live /\ mask_pos = 40
  /\ show_mode = "original" /\ infilled_video_path /\ infill_pos = 0

\* ------------------------------------------- loads of a master (SpecLoads)
\* A session in which color videos of 50 and of 2000 frames per second, and
\* one without a frame rate, are loaded one after the other, with the load
\* callbacks, seeks, decode notifications and playback in between.
NextLoads ==
  \/ LoadColorVideo(SeekMeta \cup {NoMeta})
  \/ MediaStatus \/ PosterTimer \/ PauseTimer
  \/ Seek(StoreTimesMs) \/ Decode(PlayDecodeTs)
  \/ PlayAll \/ PauseAll

SpecLoads == Init /\ [][NextLoads]_vars

\* C30: between two loads of a master fps changes at most once, from
\* unresolved to a positive value, in a media-status notification, and no
\* later notification, seek or playback event changes it; loading a master
\* returns fps to unresolved and clears the poster-frame flag.
C30_FpsOncePerLoad ==
  [][/\ op'.name = "load_original" => fps' = NoFps /\ ~poster_ready'
     /\ op'.name # "load_original" =>
          \/ fps' = fps
          \/ /\ fps = NoFps /\ op'.name = "media_status"
             /\ fps'[1] > 0 /\ fps' = orig_meta.val
    ]_vars

\* the session began with a master of 50 frames per second; a master of
\* 2000 frames per second was loaded, its frame rate resolved and its poster
\* frame shown, and a later media-status notification left the frame rate
C30_Witness ==
  /\ op.name = "media_status" /\ op.sarg = "BufferedMedia"
  /\ fps = <<2000, 1>> /\ poster_ready

\* ------------------------------------------------- overlay binding
\* C31: in every reachable state the keyframe bound to the overlay is the
\* store's record for the current frame index, and none when the store has
\* no record for it.  (Checked under SpecImport: imports of well-formed and
\* malformed files, adds, deletes, seeks and decode notifications.)
C31_OverlayShowsStoreRecord ==
  overlay_kf = IF last_frame_idx \in DOMAIN keyframes
               THEN {last_frame_idx} ELSE {}

\* --------------------------------------------- mask opacity (SpecOpacity)
\* values of the opacity control, and two values outside its range
OpacityValues == {-10, 0, 70, 150}

\* A ready session in which the opacity control is moved, the mask is shown
\* and hidden, a mask preview buffer is set, replaced and cleared, and the
\* position changes.
NextOpacity ==
  \/ SetMaskOpacity(OpacityValues)
  \/ SetMaskVisible \/ SetMaskPreview({FALSE}) \/ ClearMaskPreview
  \/ Seek(StoreTimesMs) \/ SelectMode

SpecOpacity == InitReady(ValidMeta, TRUE) /\ [][NextOpacity]_vars

\* C32: the opacity of the mask preview layer and of the file-backed mask
\* layer is the value last set through set_mask_opacity, value/100 clamped
\* to [0, 1]; no other request, setting or replacing a mask preview buffer
\* included, changes either opacity.
C32_PreviewOpacityFollowsControl ==
  [][/\ op'.name = "set_mask_opacity" =>
          /\ mask_opacity' = clamp_alpha(op'.arg)
          /\ mask_preview_opacity' = clamp_alpha(op'.arg)
     /\ op'.name # "set_mask_opacity" =>
          UNCHANGED <<mask_opacity, mask_preview_opacity>>
    ]_vars

\* ------------------------------------- mask preview request (SpecRequest)
\* A session started without media or with a color video of three frames:
\* mask-preview requests, annotation adds and deletes, an import with a
\* keyframe on frame 1, seeks to the first and the third frame and clicks on
\* keyframe chips.
NextRequest ==
  \/ PreviewMaskClicked({3})
  \/ AddPositive \/ DeleteAt
  \/ LoadAnnotations(FrameRecords) \/ KfClicked
  \/ Seek(StoreTimesMs) \/ SetMaskVisible

SpecRequest ==
  /\ InitEmpty \/ InitReady(ValidMeta, TRUE)
  /\ [][NextRequest]_vars

\* C33: a mask-preview request made while the current frame index has no
\* keyframe with at least one annotation is rejected with the "No keyframe
\* selected" warning and leaves the mask preview buffer, the layer
\* visibility and the annotation store unchanged.
C33_PreviewNeedsKeyframe ==
  [][(op'.name = "preview_mask" /\ ~has_annotations_at(State, last_frame_idx)) =>
       /\ op'.report = "No keyframe selected"
       /\ UNCHANGED <<mask_preview_frames, mask_preview_start_frame, mask_pix,
                      vis_mask, vis_mask_preview, keyframes, kf_list>>
    ]_vars

\* ------------------------------------------- reading frames (SpecFrames)
\* Calls of tools.load_video_frames_from_path on files of 0..MaxVideoFrames
\* frames that open or do not, with every start frame from -1 to one past
\* the end and every frame limit from -1 to one more than the file holds.
NextFrames == LoadVideoFrames

SpecFrames == InitEmpty /\ [][NextFrames]_vars

\* first and last index of the frames the call is to return; a file has
\* no frame before frame 0
first_wanted == IF tool.start_frame < 0 THEN 0 ELSE tool.start_frame

last_wanted ==
  IF tool.max_frames > 0 /\ tool.start_frame + tool.max_frames < tool.n
  THEN tool.start_frame + tool.max_frames - 1
  ELSE tool.n - 1

returns_wanted_frames ==
  IF first_wanted <= last_wanted
  THEN /\ tool.error = ""
       /\ tool.frames = [k \in 1..(last_wanted - first_wanted + 1) |->
                           first_wanted + k - 1]
  ELSE tool.error = "No frames read" /\ tool.frames = << >>

\* C40: for a video of N frames that opens and a start_frame >= 0,
\* load_video_frames_from_path returns, in order, exactly the frames
\* start_frame .. min(N, start_frame + max_frames) - 1 when max_frames > 0
\* and start_frame .. N - 1 when max_frames <= 0, and it fails on an
\* assertion instead of returning when that range is empty.
C40_FramesInRange ==
  (tool.fn = "load_video_frames_from_path" /\ tool.opens
   /\ tool.start_frame >= 0) => returns_wanted_frames

\* C40 as stated, for every start_frame
C40_AsStated ==
  (tool.fn = "load_video_frames_from_path" /\ tool.opens) =>
    returns_wanted_frames

\* one frame asked for from frame 1 of a file of three frames: the call
\* returns frame 1 alone
C40_Witness ==
  /\ tool.fn = "load_video_frames_from_path" /\ tool.opens
  /\ tool.n = 3 /\ tool.start_frame = 1 /\ tool.max_frames = 1
  /\ tool.frames = <<1>> /\ tool.error = ""

\* ------------------------------------------------ infill (SpecInfill)
\* Calls of run_infill_on_frames on 1..MaxVideoFrames frames with every mask
\* of FrameWidth pixels, dilated or not, a model output at the original or
\* at another size, with and without keep_unmasked_original, and feather
\* widths 0 and 2.
NextInfill == RunInfill

SpecInfill == InitEmpty /\ [][NextInfill]_vars

\* C34: run_infill_on_frames with keep_unmasked_original returns one frame
\* per input frame, and every returned frame, for every index i, has the
\* original resolution and is composited against original frame i with the
\* dilated mask: a pixel farther than the feather width outside the dilated
\* mask equals the original's.
C34_EveryFrameMerged ==
  (tool.fn = "run_infill_on_frames" /\ tool.keep_unmasked_original) =>
    /\ Len(tool.out) = tool.n
    /\ \A i \in 1..Len(tool.out) :
         /\ tool.out[i].size = "original"
         /\ \A x \in 1..FrameWidth :
              distanceTransform(bitwise_not(
                binary_dilation(tool.mask, tool.mask_dilation_iter)))[x]
                > tool.feather_px
              => tool.out[i].px[x] = orig_px(i - 1)[x]

\* ------------------------------------------------ followers and master
\* C35: a file-backed follower player (infill or mask) is playing only while
\* the master is Playing.  (Checked under Spec: play, pause, stop, seek,
\* set_mode, set_mask_visible, the load callbacks with the poster-frame step
\* and its deferred pause, and the end of the media.)
C35_FollowersPlayWithMaster ==
  ((infill_playing /\ infilled_video_path) \/ (mask_playing /\ mask_video_path))
    => orig_state = "Playing"

\* ------------------------------------------ poster frame and user play
\* C36: the poster-frame step on load never stops a playback the user
\* started.  Stated for the deferred pause that runs directly after a user
\* play_all: the master is still Playing and the drift timer still runs.
C36_PosterKeepsUserPlay ==
  [][(op.name = "play_all" /\ op'.name = "deferred_pause") =>
       orig_state' = "Playing" /\ resync_timer'
    ]_vars

\* ------------------------------------------- frame index and timestamp
\* C37: in every reachable state in which fps is resolved, last_frame_idx
\* equals ms_to_frame(last_frame_ms, fps).  (Checked under SpecDecode: a
\* ready session with decode notifications, seeks, imports, previews and
\* mode changes.)
C37_IndexMatchesTimestamp ==
  FpsResolved(State) => last_frame_idx = ms_to_frame(last_frame_ms, fps)

\* ------------------------------------------------ slider during a drag
\* C38: while the user is dragging the position control the engine never
\* writes the slider value: from press to release the slider holds the value
\* the user gave it, whatever seek, snap, master notification or deferred
\* timer runs.  (Checked under SpecDrag.)
C38_NoSliderWriteInDrag ==
  [][(slider_down /\ slider_down') =>
       IF op'.name = "slider_moved" THEN slider' = op'.arg
       ELSE slider' = slider
    ]_vars

\* ------------------------------------------- keyframe bar (SpecChips)
\* files whose entries are out of order, repeat a frame, or are empty
ChipOrders == {<<2, 0, 1>>, <<2, 0>>, <<1, 1>>, <<0, 2, 0>>, << >>}

\* A ready session with annotation adds and deletes on the first and the
\* third frame and imports of files with unordered and repeated entries.
NextChips ==
  \/ LoadAnnotationFrames(ChipOrders)
  \/ AddPositive \/ AddRect \/ DeleteAt
  \/ Seek(StoreTimesMs) \/ KfClicked

SpecChips == InitReady(ValidMeta, TRUE) /\ [][NextChips]_vars

\* C39: in every reachable state the keyframe bar holds exactly one chip per
\* keyframe in the store and none for any other frame index, and the chips
\* are in strictly increasing frame-index order.
C39_ChipsMatchStore ==
  /\ Len(kf_list) = Cardinality(DOMAIN keyframes)
  /\ {kf_list[i] : i \in 1..Len(kf_list)} = DOMAIN keyframes
  /\ \A i \in 1..Len(kf_list) : \A j \in 1..Len(kf_list) :
       i < j => kf_list[i] < kf_list[j]

\* a file with entries for frames 2, 0, 1 in that order was imported and the
\* point on frame 0 then deleted: chips for frames 1 and 2 remain, in order
C39_Witness ==
  /\ op.name = "delete_at" /\ op.report = "deleted point"
  /\ kf_list = <<1, 2>> /\ DOMAIN keyframes = {1, 2}
  /\ last_frame_idx = 0

====
